---------------------------- MODULE Spec2Model ----------------------------
(***************************************************************************)
(* A model of canac/mailbox: the message store (database crate, SQLite     *)
(* backend and message filter), the TUI worker thread with its monotonic   *)
(* request counters (cli/src/tui/worker.rs), the TUI application state     *)
(* with its optimistic updates (cli/src/tui/app.rs), the HTTP server       *)
(* (server/src/main.rs) and the HTTP backend that calls it.                *)
(*                                                                         *)
(* Fourteen specifications share the variables:                             *)
(*   SpecStore   the backend operations applied to a table                 *)
(*   SpecWorker  the UI thread, the worker thread and its spawned tasks    *)
(*   SpecApp     the App methods acting on the panes and the request queue *)
(*   SpecServer  the server answering requests on its store                *)
(*   SpecHttp    the HTTP backend's methods against the server             *)
(*   SpecTree    the mailbox tree built from a flat list, and its cursor   *)
(*   SpecList    the methods of the message list (MultiselectList)         *)
(*   SpecCursor  every cursor method of a list, on the mailbox tree        *)
(*   SpecName    Mailbox::try_from applied to strings                      *)
(*   SpecRun     tui::run: terminal setup, the event loop, the restore     *)
(*   SpecFailing SpecWorker with backend calls that can fail                *)
(*   SpecPane    the keys of the mailbox pane, with the worker behind them  *)
(*   SpecWorkerFair  SpecWorker under fair scheduling of the worker         *)
(*   SpecShutdown    the drop of the App and the exit of the worker thread  *)
(***************************************************************************)
EXTENDS Integers, Sequences, FiniteSets, TLC

VARIABLES
    table,              \* the rows of the message table (a set of Message records)
    next_id,            \* the AUTOINCREMENT sequence: the id the next inserted row gets
    clock,              \* CURRENT_TIMESTAMP, in seconds
    input,              \* the arguments the caller of the backend passes
    last,               \* the backend call that returned last, and its result
    added,              \* history: the ids add_messages last returned, in the order returned
    rx_req,             \* the request channel UI -> worker (worker_tx / rx_req)
    tasks,              \* the tasks the worker spawned, in spawn order
    message_counter,    \* MonotonicCounter.last_id of the message loads
    mailbox_counter,    \* MonotonicCounter.last_id of the mailbox loads
    pending_requests,   \* the shared AtomicUsize
    tx_res,             \* the response channel worker -> UI (tx_res / worker_rx)
    applied,            \* history: the task of every response the UI handled, in order
    mailboxes,          \* App.mailboxes: [items, cursor]
    messages,           \* App.messages: [items, cursor, selected_items, selection_mode]
    active_states,      \* App.active_states
    call,               \* history: the last mutating App method called and what it did
    auth_token,         \* the server's bearer token (get_config_factory's auth_token)
    request,            \* history: the HTTP request the server received last
    response,           \* history: what the server answered to it
    worker_tx,          \* App.worker_tx: whether the UI still holds the request sender
    worker_thread,      \* the worker thread: in its receive loop, or returned from it
    terminal            \* tui::run: its position, and the modes it put the terminal in

storeVars  == <<table, next_id, clock, input, last, added>>
workerVars == <<rx_req, tasks, message_counter, mailbox_counter, pending_requests,
                tx_res, applied>>
appVars    == <<mailboxes, messages, active_states, call>>
serverVars == <<auth_token, request, response>>
runVars    == <<worker_tx, worker_thread, terminal>>
vars       == <<storeVars, workerVars, appVars, serverVars, runVars>>

-----------------------------------------------------------------------------
(* Bounds of the model *)

\* the longest batch add_messages is called with
MaxBatch == 3
\* the number of rows ever inserted (ids are never reused)
MaxId == 3
\* the seconds the clock may advance
MaxClock == 1

-----------------------------------------------------------------------------
(* Option, State, strings *)

\* Option<T>: None is the empty sequence, Some(x) the sequence holding x
None == <<>>
Some(x) == <<x>>
Unwrap(option) == option[1]

\* message.rs: enum State
States == {"Unread", "Read", "Archived"}

\* message.rs: impl From<State> for i32
StateToInt(s) ==
    CASE s = "Unread" -> 0
      [] s = "Read" -> 1
      [] s = "Archived" -> 2

\* A string is a sequence of one-character strings.
\* The byte of each character of the model's alphabet (ASCII).
CharCode(c) ==
    CASE c = "%" -> 37
      [] c = "-" -> 45
      [] c = "/" -> 47
      [] c = "A" -> 65
      [] c = "_" -> 95
      [] c = "a" -> 97
      [] c = "b" -> 98
      [] c = "c" -> 99
      [] c = "d" -> 100
      [] c = "e" -> 101

\* str::starts_with
StartsWith(s, p) == Len(p) <= Len(s) /\ SubSeq(s, 1, Len(p)) = p

\* Ord for String (derived Ord of Mailbox): byte-wise lexicographic, s < t
RECURSIVE StrLess(_, _)
StrLess(s, t) ==
    IF t = <<>> THEN FALSE
    ELSE IF s = <<>> THEN TRUE
    ELSE IF Head(s) # Head(t) THEN CharCode(Head(s)) < CharCode(Head(t))
    ELSE StrLess(Tail(s), Tail(t))

\* SQLite folds the case of ASCII letters when LIKE compares two characters
LikeFold(c) == IF c = "A" THEN "a" ELSE c

\* The LIKE operator of the engine, as get_where uses it (no ESCAPE clause):
\* '%' matches any run of characters, '_' any one character, every other
\* character itself (ASCII letters without regard to case).
RECURSIVE Like(_, _)
Like(s, p) ==
    IF p = <<>> THEN s = <<>>
    ELSE IF Head(p) = "%" THEN Like(s, Tail(p)) \/ (s # <<>> /\ Like(Tail(s), p))
    ELSE /\ s # <<>>
         /\ (Head(p) = "_" \/ LikeFold(Head(s)) = LikeFold(Head(p)))
         /\ Like(Tail(s), Tail(p))

-----------------------------------------------------------------------------
(* Mailbox *)

\* a faulty variant of ValidMailbox: '%' is not refused
ValidMailboxWithPercent(value) ==
    /\ value # <<>>
    /\ Head(value) # "/"
    /\ value[Len(value)] # "/"
    /\ \A i \in 1..(Len(value) - 1) : ~(value[i] = "/" /\ value[i + 1] = "/")

\* mailbox.rs: TryFrom<String> for Mailbox, the value is accepted
ValidMailbox(value) ==
    /\ value # <<>>
    /\ Head(value) # "/"
    /\ value[Len(value)] # "/"
    /\ \A i \in 1..(Len(value) - 1) : ~(value[i] = "/" /\ value[i + 1] = "/")
    /\ \A i \in 1..Len(value) : value[i] # "%"

\* a faulty variant of IterAncestors: a mailbox has no ancestor but itself
IterAncestorsSelfOnly(mailbox) == <<mailbox>>

\* mailbox.rs: Mailbox::iter_ancestors, as the sequence it yields
IterAncestors(mailbox) ==
    LET ends == {i \in 1..Len(mailbox) : i = Len(mailbox) \/ mailbox[i + 1] = "/"}
        RECURSIVE Upto(_)
        Upto(n) ==
            IF n > Len(mailbox) THEN <<>>
            ELSE IF n \in ends
                 THEN <<SubSeq(mailbox, 1, n)>> \o Upto(n + 1)
                 ELSE Upto(n + 1)
    IN Upto(1)

\* The mailboxes of the model
MbA == <<"a">>
MbAB == <<"a", "/", "b">>
MbB == <<"b">>
MbWild == <<"_">>

-----------------------------------------------------------------------------
(* MessageFilter *)

\* message_filter.rs: MessageFilter::new
NewFilter == [ids |-> None, mailbox |-> None, states |-> None]

\* message_filter.rs: with_ids (the Vec is used for membership only)
WithIds(f, ids) == [f EXCEPT !.ids = Some(ids)]

\* message_filter.rs: with_mailbox
WithMailbox(f, mailbox) == [f EXCEPT !.mailbox = Some(mailbox)]

\* message_filter.rs: with_mailbox_option
WithMailboxOption(f, mailbox) ==
    IF mailbox = None THEN f ELSE WithMailbox(f, Unwrap(mailbox))

\* message_filter.rs: with_states
WithStates(f, states) == [f EXCEPT !.states = Some(states)]

\* a faulty variant of MatchesAll: no filter counts as unconstrained
MatchesNone(f) == FALSE

\* message_filter.rs: matches_all
MatchesAll(f) == f.ids = None /\ f.mailbox = None /\ f.states = None

\* message_filter.rs: matches_message
MatchesMessage(f, message) ==
    /\ f.ids # None => message.id \in Unwrap(f.ids)
    /\ f.mailbox # None =>
          \/ Unwrap(f.mailbox) = message.mailbox
          \/ StartsWith(message.mailbox, Unwrap(f.mailbox) \o <<"/">>)
    /\ f.states # None => message.state \in Unwrap(f.states)

\* message_filter.rs: get_where, the condition evaluated by the engine on a row
GetWhere(f, row) ==
    /\ f.ids # None => row.id \in Unwrap(f.ids)
    /\ f.mailbox # None =>
          \/ Like(row.mailbox, Unwrap(f.mailbox) \o <<"/", "%">>)
          \/ row.mailbox = Unwrap(f.mailbox)
    /\ f.states # None =>
          StateToInt(row.state) \in {StateToInt(s) : s \in Unwrap(f.states)}

-----------------------------------------------------------------------------
(* The message table and the five backend operations (sqlite_backend.rs) *)

\* The contents of the model; <<>> is the empty string
ContentX == <<"x">>
ContentY == <<"y">>
ContentZ == <<"z">>

\* new_message.rs: the NewMessage values the callers pass
NewMessagePool ==
    { [mailbox |-> MbB, content |-> ContentX, state |-> None],
      [mailbox |-> MbAB, content |-> ContentY, state |-> None],
      [mailbox |-> MbAB, content |-> ContentZ, state |-> Some("Read")],
      [mailbox |-> MbB, content |-> <<>>, state |-> None] }

\* Vec<NewMessage> arguments of add_messages
Batches == UNION {[1..n -> NewMessagePool] : n \in 0..MaxBatch}

\* The filters the callers pass
FilterIds == {None, Some({}), Some({1, 3})}
FilterMailboxes == {None, Some(MbA), Some(MbAB), Some(MbWild)}
FilterStates == {None, Some({"Unread"}), Some({"Read", "Archived"})}
Filters == [ids : FilterIds, mailbox : FilterMailboxes, states : FilterStates]

Reverse(seq) == [i \in 1..Len(seq) |-> seq[Len(seq) + 1 - i]]

Range(seq) == {seq[i] : i \in 1..Len(seq)}

\* The sequences that list every element of the set once: the orders in which
\* the engine may hand out the rows of a RETURNING clause
Orders(S) ==
    {seq \in [1..Cardinality(S) -> S] : \A x \in S : \E i \in 1..Cardinality(S) : seq[i] = x}

\* a faulty variant of OrderByIdDesc: the rows in ascending order of id
RECURSIVE OrderByIdAsc(_)
OrderByIdAsc(rows) ==
    IF rows = {} THEN <<>>
    ELSE LET low == CHOOSE r \in rows : \A q \in rows : r.id <= q.id
         IN <<low>> \o OrderByIdAsc(rows \ {low})

\* ORDER BY id DESC
RECURSIVE OrderByIdDesc(_)
OrderByIdDesc(rows) ==
    IF rows = {} THEN <<>>
    ELSE LET top == CHOOSE r \in rows : \A q \in rows : q.id <= r.id
         IN <<top>> \o OrderByIdDesc(rows \ {top})

\* Vec::sort_by_key(|message| -message.timestamp.timestamp()): a stable sort,
\* newest second first, of rows whose timestamps are at most t
RECURSIVE SortByTimestampDesc(_, _)
SortByTimestampDesc(seq, t) ==
    IF t < 0 THEN <<>>
    ELSE SelectSeq(seq, LAMBDA m : m.timestamp = t) \o SortByTimestampDesc(seq, t - 1)

\* src/database.rs (the single-crate Database on rusqlite):
\* Vec::sort_by_key(|message| message.timestamp), a stable sort, oldest first,
\* of rows whose timestamps are at most t
RECURSIVE SortByTimestamp(_, _)
SortByTimestamp(seq, t) ==
    IF t < 0 THEN <<>>
    ELSE SortByTimestamp(seq, t - 1) \o SelectSeq(seq, LAMBDA m : m.timestamp = t)

\* sqlite_backend.rs init: the CHECK constraints of the message table
RowChecks(row) ==
    /\ Len(row.mailbox) > 0
    /\ Len(row.content) > 0
    /\ StateToInt(row.state) >= 0 /\ StateToInt(row.state) <= 2

\* a faulty variant of InsertedRows: the batch is inserted in the caller's order
InsertedRowsInOrder(batch, first_id, now) ==
    [i \in 1..Len(batch) |->
        [id |-> first_id + i - 1,
         timestamp |-> now,
         mailbox |-> batch[i].mailbox,
         content |-> batch[i].content,
         state |-> IF batch[i].state = None THEN "Unread" ELSE Unwrap(batch[i].state)]]

\* sqlite_backend.rs add_messages: the rows the INSERT statement creates, in
\* the order of its VALUES lists (the batch reversed); ids come from the
\* AUTOINCREMENT sequence, the timestamp is the column default
InsertedRows(batch, first_id, now) ==
    LET values == Reverse(batch)
    IN [i \in 1..Len(values) |->
            [id |-> first_id + i - 1,
             timestamp |-> now,
             mailbox |-> values[i].mailbox,
             content |-> values[i].content,
             state |-> IF values[i].state = None THEN "Unread"
                       ELSE Unwrap(values[i].state)]]

\* sqlite_backend.rs add_messages: [ok, table, next_id, result]
AddMessagesCall(t, first_id, now, batch) ==
    IF batch = <<>> THEN [ok |-> TRUE, table |-> t, next_id |-> first_id, result |-> <<>>]
    ELSE LET rows == InsertedRows(batch, first_id, now)
         IN IF \A i \in 1..Len(rows) : RowChecks(rows[i])
            THEN [ok |-> TRUE,
                  table |-> t \cup Range(rows),
                  next_id |-> first_id + Len(rows),
                  result |-> Reverse(rows)]
            ELSE [ok |-> FALSE, table |-> t, next_id |-> first_id, result |-> <<>>]

\* a faulty variant of ValidateMessage: every message is accepted
ValidateNothing(message) == TRUE

\* database.rs validate_message: TRUE when the message is accepted
ValidateMessage(message) == message.content # <<>>

\* database.rs Database::add_messages: every message is validated while the
\* INSERT statement is built, and the first failure returns before the query
\* is sent; issued tells whether the query reached the store
DatabaseAddMessagesCall(t, first_id, now, batch) ==
    IF batch = <<>>
    THEN [ok |-> TRUE, table |-> t, next_id |-> first_id, result |-> <<>>,
          issued |-> FALSE]
    ELSE IF \E i \in 1..Len(batch) : ~ValidateMessage(batch[i])
         THEN [ok |-> FALSE, table |-> t, next_id |-> first_id, result |-> <<>>,
               issued |-> FALSE]
         ELSE LET r == AddMessagesCall(t, first_id, now, batch)
              IN [ok |-> r.ok, table |-> r.table, next_id |-> r.next_id,
                  result |-> r.result, issued |-> TRUE]

\* sqlite_backend.rs load_messages
LoadMessagesCall(t, f) == OrderByIdDesc({row \in t : GetWhere(f, row)})

\* sqlite_backend.rs change_state: the table after the UPDATE
ChangeStateTable(t, f, new_state) ==
    {IF GetWhere(f, row) THEN [row EXCEPT !.state = new_state] ELSE row : row \in t}

\* sqlite_backend.rs change_state: the rows RETURNING hands out, as a set
ChangeStateReturning(t, f, new_state) ==
    {[row EXCEPT !.state = new_state] : row \in {r \in t : GetWhere(f, r)}}

\* sqlite_backend.rs delete_messages: the table after the DELETE
DeleteMessagesTable(t, f) == {row \in t : ~GetWhere(f, row)}

\* sqlite_backend.rs delete_messages: the rows RETURNING hands out, as a set
DeleteMessagesReturning(t, f) == {row \in t : GetWhere(f, row)}

\* ORDER BY mailbox ASC
RECURSIVE OrderByMailboxAsc(_)
OrderByMailboxAsc(infos) ==
    IF infos = {} THEN <<>>
    ELSE LET low == CHOOSE r \in infos : \A q \in infos : q = r \/ StrLess(r.name, q.name)
         IN <<low>> \o OrderByMailboxAsc(infos \ {low})

\* sqlite_backend.rs load_mailboxes: GROUP BY mailbox with COUNT(id)
LoadMailboxesCall(t, f) ==
    LET rows == {row \in t : GetWhere(f, row)}
        names == {row.mailbox : row \in rows}
    IN OrderByMailboxAsc({[name |-> n,
                           message_count |-> Cardinality({row \in rows : row.mailbox = n})]
                          : n \in names})

NoCall == [op |-> "none", new_state |-> None, ok |-> TRUE, result |-> <<>>]

\* The other specifications' variables at rest
WorkerIdle ==
    /\ rx_req = <<>> /\ tasks = <<>> /\ message_counter = 0 /\ mailbox_counter = 0
    /\ pending_requests = 0 /\ tx_res = <<>> /\ applied = <<>>

AppIdle ==
    /\ mailboxes = [items |-> <<>>, cursor |-> None]
    /\ messages = [items |-> <<>>, cursor |-> None, selected_items |-> {},
                   selection_mode |-> "None"]
    /\ active_states = {}
    /\ call = [op |-> "none", removed |-> 0, refresh |-> FALSE]

\* no request served yet
NoRequest == [method |-> "none"]
NoResponse == [kind |-> "none"]

ServerIdle == auth_token = None /\ request = NoRequest /\ response = NoResponse

\* tui::run, as the steps it takes in order; every step but the last two can
\* fail, and all but run_app are followed by `?`
RunProgram ==
    << "enable_raw_mode", "enter_alternate_screen", "enable_mouse_capture",
       "terminal_new", "app_new", "run_app", "disable_raw_mode",
       "leave_alternate_screen", "disable_mouse_capture", "show_cursor", "return" >>

\* tui::run has not been entered: nothing is enabled, nothing has failed
NewTerminal ==
    [pc |-> 1, raw_mode |-> FALSE, alternate_screen |-> FALSE, mouse_capture |-> FALSE,
     failed |-> "none", res |-> "none", returned |-> "none"]

\* the UI holds the sender, the worker thread is in its loop, run not entered
RunIdle == worker_tx = "held" /\ worker_thread = "recv" /\ terminal = NewTerminal

\* SqliteBackend::new_test: a fresh table; the caller's arguments are drawn here
InitStore ==
    /\ table = {} /\ next_id = 1 /\ clock = 0 /\ last = NoCall /\ added = <<>>
    /\ input \in [batch : Batches, filter : Filters]
    /\ WorkerIdle /\ RunIdle /\ AppIdle /\ ServerIdle

\* a second passes
Tick ==
    /\ clock < MaxClock
    /\ clock' = clock + 1
    /\ UNCHANGED <<serverVars, runVars, table, next_id, input, last, added, workerVars, appVars>>

\* Backend::add_messages(input.batch)
AddMessages ==
    /\ next_id + Len(input.batch) <= MaxId + 1
    /\ LET r == AddMessagesCall(table, next_id, clock, input.batch)
       IN /\ table' = r.table
          /\ next_id' = r.next_id
          /\ last' = [op |-> "add_messages", new_state |-> None, ok |-> r.ok,
                      result |-> r.result]
          /\ added' = IF r.ok /\ input.batch # <<>>
                      THEN [i \in 1..Len(r.result) |-> r.result[i].id]
                      ELSE added
    /\ UNCHANGED <<serverVars, runVars, clock, input, workerVars, appVars>>

\* Database::add_messages(input.batch)
DatabaseAddMessages ==
    /\ next_id + Len(input.batch) <= MaxId + 1
    /\ LET r == DatabaseAddMessagesCall(table, next_id, clock, input.batch)
       IN /\ table' = r.table
          /\ next_id' = r.next_id
          /\ last' = [op |-> "Database::add_messages", new_state |-> None, ok |-> r.ok,
                      result |-> r.result, issued |-> r.issued]
          /\ added' = IF r.ok /\ input.batch # <<>>
                      THEN [i \in 1..Len(r.result) |-> r.result[i].id]
                      ELSE added
    /\ UNCHANGED <<serverVars, runVars, clock, input, workerVars, appVars>>

\* Backend::load_messages(input.filter)
LoadMessages ==
    /\ last' = [op |-> "load_messages", new_state |-> None, ok |-> TRUE,
                result |-> LoadMessagesCall(table, input.filter)]
    /\ UNCHANGED <<serverVars, runVars, table, next_id, clock, input, added, workerVars, appVars>>

\* Backend::change_state(input.filter, new_state)
ChangeState ==
    \E new_state \in States :
        \E returning \in Orders(ChangeStateReturning(table, input.filter, new_state)) :
            /\ table' = ChangeStateTable(table, input.filter, new_state)
            /\ last' = [op |-> "change_state", new_state |-> Some(new_state), ok |-> TRUE,
                        result |-> SortByTimestampDesc(returning, clock)]
            /\ UNCHANGED <<serverVars, runVars, next_id, clock, input, added, workerVars, appVars>>

\* Backend::delete_messages(input.filter)
DeleteMessages ==
    \E returning \in Orders(DeleteMessagesReturning(table, input.filter)) :
        /\ table' = DeleteMessagesTable(table, input.filter)
        /\ last' = [op |-> "delete_messages", new_state |-> None, ok |-> TRUE,
                    result |-> SortByTimestampDesc(returning, clock)]
        /\ UNCHANGED <<serverVars, runVars, next_id, clock, input, added, workerVars, appVars>>

\* src/database.rs Database::change_state(&input.filter, new_state)
RusqliteChangeState ==
    \E new_state \in States :
        \E returning \in Orders(ChangeStateReturning(table, input.filter, new_state)) :
            /\ table' = ChangeStateTable(table, input.filter, new_state)
            /\ last' = [op |-> "Database::change_state", new_state |-> Some(new_state),
                        ok |-> TRUE, result |-> SortByTimestamp(returning, clock)]
            /\ UNCHANGED <<serverVars, runVars, next_id, clock, input, added, workerVars, appVars>>

\* src/database.rs Database::delete_messages(&input.filter)
RusqliteDeleteMessages ==
    \E returning \in Orders(DeleteMessagesReturning(table, input.filter)) :
        /\ table' = DeleteMessagesTable(table, input.filter)
        /\ last' = [op |-> "Database::delete_messages", new_state |-> None, ok |-> TRUE,
                    result |-> SortByTimestamp(returning, clock)]
        /\ UNCHANGED <<serverVars, runVars, next_id, clock, input, added, workerVars, appVars>>

\* Backend::load_mailboxes(input.filter)
LoadMailboxes ==
    /\ last' = [op |-> "load_mailboxes", new_state |-> None, ok |-> TRUE,
                result |-> LoadMailboxesCall(table, input.filter)]
    /\ UNCHANGED <<serverVars, runVars, table, next_id, clock, input, added, workerVars, appVars>>

NextStore ==
    \/ Tick
    \/ AddMessages
    \/ DatabaseAddMessages
    \/ LoadMessages
    \/ ChangeState
    \/ DeleteMessages
    \/ RusqliteChangeState
    \/ RusqliteDeleteMessages
    \/ LoadMailboxes

SpecStore == InitStore /\ [][NextStore]_vars

-----------------------------------------------------------------------------
(* Properties of the store, checked under SpecStore *)

\* C3: for every filter f and stored message m, f.matches_message(m) is true
\* iff m is in the result of load_messages(f).
C3_MatcherAgreesWithSql ==
    last.op = "load_messages" =>
        \A m \in table : MatchesMessage(input.filter, m) <=> m \in Range(last.result)

\* C8: change_state(f, s) sets the state to s on exactly the stored messages
\* matching f, returns every matching message (also those already in state
\* s), changes no other field and leaves every other message unchanged.
C8_ChangeStateFrame ==
    [][ChangeState =>
        LET f == input.filter
            s == Unwrap(last'.new_state)
        IN /\ table' = {IF MatchesMessage(f, m) THEN [m EXCEPT !.state = s] ELSE m
                        : m \in table}
           /\ Range(last'.result) =
                {[m EXCEPT !.state = s] : m \in {r \in table : MatchesMessage(f, r)}}
           /\ Len(last'.result) = Cardinality({r \in table : MatchesMessage(f, r)})]_vars

\* The position of an id in the sequence add_messages returned
PositionIn(seq, x) == CHOOSE i \in 1..Len(seq) : seq[i] = x

\* C9: add_messages returns the created messages in the order of its input,
\* the first input message receiving the highest id, and a later
\* load_messages lists the messages of the batch in the caller's order.
C9_BatchOrder ==
    /\ (last.op = "add_messages" /\ last.ok) =>
          /\ Len(last.result) = Len(input.batch)
          /\ \A i \in 1..Len(last.result) :
                /\ last.result[i].mailbox = input.batch[i].mailbox
                /\ last.result[i].content = input.batch[i].content
                /\ last.result[i].state = IF input.batch[i].state = None THEN "Unread"
                                          ELSE Unwrap(input.batch[i].state)
          /\ \A i, j \in 1..Len(last.result) :
                i < j => last.result[i].id > last.result[j].id
    /\ last.op = "load_messages" =>
          \A i, j \in 1..Len(last.result) :
              (/\ i < j
               /\ last.result[i].id \in Range(added)
               /\ last.result[j].id \in Range(added))
              => PositionIn(added, last.result[i].id) < PositionIn(added, last.result[j].id)

\* C9 witness: a load lists two messages of the last batch, which differ
C9_Witness ==
    /\ last.op = "load_messages"
    /\ \E i, j \in 1..Len(last.result) :
          /\ i < j
          /\ last.result[i].id \in Range(added)
          /\ last.result[j].id \in Range(added)
          /\ last.result[i].content # last.result[j].content

\* The batch of scenario 1: x in mailbox m2, then y and z in mailbox m1
BatchXYZ ==
    << [mailbox |-> MbB, content |-> ContentX, state |-> None],
       [mailbox |-> MbAB, content |-> ContentY, state |-> None],
       [mailbox |-> MbAB, content |-> ContentZ, state |-> Some("Read")] >>

\* The store holds exactly the three messages of BatchXYZ, as inserted
OnlyBatchXYZ ==
    /\ input.batch = BatchXYZ
    /\ Cardinality(table) = 3
    /\ {[mailbox |-> m.mailbox, content |-> m.content, state |-> m.state] : m \in table}
         = { [mailbox |-> MbB, content |-> ContentX, state |-> "Unread"],
             [mailbox |-> MbAB, content |-> ContentY, state |-> "Unread"],
             [mailbox |-> MbAB, content |-> ContentZ, state |-> "Read"] }

Contents(seq) == [i \in 1..Len(seq) |-> seq[i].content]

\* C10 as stated: after add_messages([x, y, z]) on a fresh store the
\* unconstrained load returns z, y, x and the load of mailbox m1 returns z, y.
C10_LastInputFirst ==
    (last.op = "load_messages" /\ OnlyBatchXYZ) =>
        /\ input.filter = NewFilter =>
              Contents(last.result) = <<ContentZ, ContentY, ContentX>>
        /\ input.filter = WithMailbox(NewFilter, MbAB) =>
              Contents(last.result) = <<ContentZ, ContentY>>

\* C10 amended: the unconstrained load returns x, y, z and the load of mailbox
\* m1 returns y, z (the first message of the input batch is listed first).
C10_FirstInputFirst ==
    (last.op = "load_messages" /\ OnlyBatchXYZ) =>
        /\ input.filter = NewFilter =>
              Contents(last.result) = <<ContentX, ContentY, ContentZ>>
        /\ input.filter = WithMailbox(NewFilter, MbAB) =>
              Contents(last.result) = <<ContentY, ContentZ>>

\* C10 witness: the load of mailbox m1 in the scenario returned two messages
C10_Witness ==
    /\ last.op = "load_messages"
    /\ OnlyBatchXYZ
    /\ input.filter = WithMailbox(NewFilter, MbAB)
    /\ Len(last.result) = 2

\* a batch in which some message has empty content
HasEmptyContent(batch) == \E i \in 1..Len(batch) : batch[i].content = <<>>

\* C11: add_messages called with a batch that holds a message with empty
\* content returns an error and stores nothing of the batch: the table and the
\* id sequence are as before; Database::add_messages finds the empty content
\* while it builds the statement, so no query is issued
C11_EmptyContentRejected ==
    [][/\ (DatabaseAddMessages /\ HasEmptyContent(input.batch))
            => /\ ~last'.ok /\ ~last'.issued /\ last'.result = <<>>
               /\ table' = table /\ next_id' = next_id
       /\ (AddMessages /\ HasEmptyContent(input.batch))
            => /\ ~last'.ok /\ last'.result = <<>>
               /\ table' = table /\ next_id' = next_id]_vars

\* C11 witness: Database::add_messages has refused a batch of three messages
\* of which the first two are valid and the last has empty content
C11_Witness ==
    /\ last.op = "Database::add_messages"
    /\ ~last.ok
    /\ Len(input.batch) = 3
    /\ input.batch[1].content = ContentX
    /\ input.batch[2].content = ContentY
    /\ input.batch[3].content = <<>>

\* Messages the store does not hold, for matches_message: one whose mailbox
\* only shares a prefix with the filter mailbox "a", and one below it
ProbeMessages ==
    { [id |-> 1, timestamp |-> 0, mailbox |-> <<"a", "b">>, content |-> ContentX,
       state |-> "Unread"],
      [id |-> 2, timestamp |-> 0, mailbox |-> MbAB, content |-> ContentY,
       state |-> "Archived"],
      [id |-> 3, timestamp |-> 0, mailbox |-> MbA, content |-> ContentZ,
       state |-> "Read"] }

\* every constraint the filter holds is satisfied by the message: the id is one
\* of ids, the mailbox is the filter's mailbox or continues it after a '/', the
\* state is one of states
PresentConstraintsHold(f, m) ==
    /\ f.ids = None \/ m.id \in Unwrap(f.ids)
    /\ \/ f.mailbox = None
       \/ m.mailbox = Unwrap(f.mailbox)
       \/ \E k \in 1..Len(m.mailbox) :
             SubSeq(m.mailbox, 1, k) = Unwrap(f.mailbox) \o <<"/">>
    /\ f.states = None \/ m.state \in Unwrap(f.states)

\* C18: a message matches a filter iff every present constraint holds (id in
\* ids, mailbox equal to or below the filter mailbox, state in states); this
\* is what matches_message answers for every filter and message, and what
\* decides the rows load_messages returns
C18_FilterSemantics ==
    /\ \A f \in Filters : \A m \in table \cup ProbeMessages :
          MatchesMessage(f, m) <=> PresentConstraintsHold(f, m)
    /\ last.op = "load_messages" =>
          \A m \in table :
              m \in Range(last.result) <=> PresentConstraintsHold(input.filter, m)

\* C18, for matches_message alone
C18_MatcherSemantics ==
    \A f \in Filters : \A m \in table \cup ProbeMessages :
        MatchesMessage(f, m) <=> PresentConstraintsHold(f, m)

\* the sum of the message_count column of a load_mailboxes result
RECURSIVE SumCounts(_)
SumCounts(infos) ==
    IF infos = <<>> THEN 0 ELSE Head(infos).message_count + SumCounts(Tail(infos))

\* C19: load_mailboxes(f) returns one row per distinct mailbox path stored on
\* a message matching f and no other row (no ancestor rows), each with the
\* number of matching messages of exactly that path, ascending by mailbox
\* name; the counts add up to the number of messages load_messages(f) returns
C19_MailboxCounts ==
    last.op = "load_mailboxes" =>
        LET matching == {m \in table : MatchesMessage(input.filter, m)}
            infos == last.result
        IN /\ {infos[i].name : i \in 1..Len(infos)} = {m.mailbox : m \in matching}
           /\ \A i \in 1..Len(infos) :
                 infos[i].message_count =
                     Cardinality({m \in matching : m.mailbox = infos[i].name})
           /\ \A i \in 1..Len(infos) : \A j \in 1..Len(infos) :
                 i < j => StrLess(infos[i].name, infos[j].name)
           /\ SumCounts(infos) = Len(LoadMessagesCall(table, input.filter))

\* C20: the vector change_state and delete_messages return is sorted by
\* timestamp, newest first, in whatever order RETURNING handed out the rows;
\* stated for the SQLite backend and for the single-crate Database
C20_ReturnedNewestFirst ==
    last.op \in {"change_state", "delete_messages",
                 "Database::change_state", "Database::delete_messages"} =>
        \A i \in 1..Len(last.result) : \A j \in 1..Len(last.result) :
            i < j => last.result[i].timestamp >= last.result[j].timestamp

\* C20, for SqliteBackend alone
C20_BackendReturnedNewestFirst ==
    last.op \in {"change_state", "delete_messages"} =>
        \A i \in 1..Len(last.result) : \A j \in 1..Len(last.result) :
            i < j => last.result[i].timestamp >= last.result[j].timestamp

-----------------------------------------------------------------------------
(* NavigableList, TreeList and MultiselectList                              *)
(* A list is a record [items, cursor]; a MultiselectList has in addition    *)
(* selected_items and selection_mode.  The cursor is an Option<usize>, an   *)
(* index from 0: the item under Some(c) is items[c + 1].                    *)

Min(S) == CHOOSE x \in S : \A y \in S : x <= y
Max(S) == CHOOSE x \in S : \A y \in S : y <= x

\* Keyed::get_key: the id of a message, the (hash of the) name of a mailbox row
GetKey(item) == IF "id" \in DOMAIN item THEN item.id ELSE item.mailbox

\* NavigableList::get_cursor_item
GetCursorItem(list) ==
    IF list.cursor # None /\ Unwrap(list.cursor) < Len(list.items)
    THEN Some(list.items[Unwrap(list.cursor) + 1])
    ELSE None

\* NavigableList::first: the cursor it hands to set_cursor
First(list) == IF list.items = <<>> THEN None ELSE Some(0)

\* NavigableList::last: the cursor it hands to set_cursor
Last(list) == IF Len(list.items) = 0 THEN None ELSE Some(Len(list.items) - 1)

\* a faulty variant of MoveCursorRelative: no cursor counts as index 0
MoveCursorRelativeFromZero(list, change) ==
    IF Len(list.items) = 0 THEN None
    ELSE LET new_index == (IF list.cursor = None THEN 0 ELSE Unwrap(list.cursor)) + change
         IN Some(Max({0, Min({new_index, Len(list.items) - 1})}))

\* a faulty variant of MoveCursorRelative: the new index is not clamped to the
\* last item
MoveCursorRelativeUnclamped(list, change) ==
    IF Len(list.items) = 0 THEN None
    ELSE LET new_index == (IF list.cursor = None THEN -1 ELSE Unwrap(list.cursor)) + change
         IN Some(Max({0, new_index}))

\* NavigableList::move_cursor_relative: the cursor it hands to set_cursor
MoveCursorRelative(list, change) ==
    IF Len(list.items) = 0 THEN None
    ELSE LET new_index == (IF list.cursor = None THEN -1 ELSE Unwrap(list.cursor)) + change
         IN Some(Max({0, Min({new_index, Len(list.items) - 1})}))

\* a faulty variant of ReplaceCursor: the cursor follows the key it was on and
\* is dropped when that key is gone
ReplaceCursorSameKey(list, items) ==
    LET NewKeys(key) == {i \in 1..Len(items) : GetKey(items[i]) = key}
    IN IF GetCursorItem(list) = None \/ NewKeys(GetKey(Unwrap(GetCursorItem(list)))) = {}
       THEN None
       ELSE Some(Max(NewKeys(GetKey(Unwrap(GetCursorItem(list))))) - 1)

\* a faulty variant of ReplaceCursor: the cursor keeps its index
ReplaceCursorKeepIndex(list, items) ==
    IF list.cursor = None \/ items = <<>> THEN None
    ELSE Some(Min({Unwrap(list.cursor), Len(items) - 1}))

\* NavigableList::replace_items: the cursor it hands to set_cursor, the new
\* index of the first item, from the cursor on, whose key is still present
\* (new_keys is a HashMap, so the last index of a key is the one kept)
ReplaceCursor(list, items) ==
    LET skip == IF list.cursor = None THEN Len(list.items) ELSE Unwrap(list.cursor)
        cursor_candidates ==
            [k \in 1..(Len(list.items) - skip) |-> GetKey(list.items[skip + k])]
        NewKeys(key) == {i \in 1..Len(items) : GetKey(items[i]) = key}
        found == {k \in 1..Len(cursor_candidates) : NewKeys(cursor_candidates[k]) # {}}
    IN IF found = {} THEN None
       ELSE Some(Max(NewKeys(cursor_candidates[Min(found)])) - 1)

\* NavigableList::replace_items with TreeList::set_cursor
ReplaceItems(list, items) ==
    [list EXCEPT !.items = items, !.cursor = ReplaceCursor(list, items)]

\* MultiselectList::new
NewMultiselectList ==
    [items |-> <<>>, cursor |-> None, selected_items |-> {}, selection_mode |-> "None"]

\* TreeList::new
NewTreeList == [items |-> <<>>, cursor |-> None]

\* a faulty variant of MultiselectSetCursor: only the item the cursor lands on
\* is selected or deselected
MultiselectSetCursorNoRange(list, new_cursor) ==
    LET keys == IF new_cursor = None \/ Unwrap(new_cursor) >= Len(list.items) THEN {}
                ELSE {GetKey(list.items[Unwrap(new_cursor) + 1])}
    IN [list EXCEPT
           !.cursor = new_cursor,
           !.selected_items =
               CASE list.selection_mode = "None" -> @
                 [] list.selection_mode = "Select" -> @ \cup keys
                 [] list.selection_mode = "Deselect" -> @ \ keys]

\* MultiselectList::set_cursor: the items between the old and the new cursor
\* are selected or deselected as selection_mode says
MultiselectSetCursor(list, new_cursor) ==
    LET touched_indexes ==
            IF new_cursor = None THEN {}
            ELSE IF list.cursor = None THEN 0..Unwrap(new_cursor)
            ELSE Min({Unwrap(list.cursor), Unwrap(new_cursor)})
                   ..Max({Unwrap(list.cursor), Unwrap(new_cursor)})
        keys == {GetKey(list.items[index + 1]) :
                    index \in {i \in touched_indexes : i < Len(list.items)}}
    IN [list EXCEPT
           !.cursor = new_cursor,
           !.selected_items =
               CASE list.selection_mode = "None" -> @
                 [] list.selection_mode = "Select" -> @ \cup keys
                 [] list.selection_mode = "Deselect" -> @ \ keys]

\* a faulty variant of MultiselectReplaceItems: the selection is left as it was
MultiselectReplaceItemsKeepAll(list, items) ==
    [items |-> items,
     cursor |-> ReplaceCursor(list, items),
     selected_items |-> list.selected_items,
     selection_mode |-> list.selection_mode]

\* MultiselectList::replace_items: the selection mode is switched off, the items
\* are replaced and the cursor is moved by NavigableList::replace_items (through
\* set_cursor), the selection becomes the keys of the new items that were
\* selected before, the selection mode is restored
MultiselectReplaceItems(list, items) ==
    LET disabled == [list EXCEPT !.selection_mode = "None"]
        replaced == MultiselectSetCursor([disabled EXCEPT !.items = items],
                                         ReplaceCursor(disabled, items))
    IN [replaced EXCEPT
           !.selected_items =
               {key \in {GetKey(items[i]) : i \in 1..Len(items)} : key \in list.selected_items},
           !.selection_mode = list.selection_mode]

\* MultiselectList::toggle_cursor_selected
ToggleCursorSelected(list) ==
    IF GetCursorItem(list) = None THEN list
    ELSE LET key == GetKey(Unwrap(GetCursorItem(list)))
         IN [list EXCEPT !.selected_items =
                IF key \in @ THEN @ \ {key} ELSE @ \cup {key}]

\* MultiselectList::set_all_selected
SetAllSelected(list, new_selected) ==
    [list EXCEPT !.selected_items =
        IF new_selected THEN {GetKey(list.items[i]) : i \in 1..Len(list.items)} ELSE {}]

\* MultiselectList::get_selected_items
GetSelectedItems(list) ==
    SelectSeq(list.items, LAMBDA item : GetKey(item) \in list.selected_items)

-----------------------------------------------------------------------------
(* App (cli/src/tui/app.rs)                                                 *)

\* build_mailbox_list: sort_by(|mailbox1, mailbox2| mailbox1.mailbox.cmp(&mailbox2.mailbox))
RECURSIVE SortByMailbox(_)
SortByMailbox(rows) ==
    IF rows = {} THEN <<>>
    ELSE LET low == CHOOSE r \in rows : \A q \in rows : q = r \/ StrLess(r.mailbox, q.mailbox)
         IN <<low>> \o SortByMailbox(rows \ {low})

\* a faulty variant of BuildMailboxList: the rows of the input in name order,
\* no row synthesized for an ancestor and no count carried up
BuildMailboxListFlat(mailbox_sizes) ==
    SortByMailbox({[mailbox |-> mailbox_sizes[i].name,
                    depth |-> Len(IterAncestors(mailbox_sizes[i].name)) - 1,
                    message_count |-> mailbox_sizes[i].message_count]
                   : i \in 1..Len(mailbox_sizes)})

\* App::build_mailbox_list: one row for every mailbox and every ancestor of a
\* mailbox, its depth the index among the ancestors, its count the sum of the
\* counts of the mailboxes at or below it
BuildMailboxList(mailbox_sizes) ==
    LET Ancestors(i) == IterAncestors(mailbox_sizes[i].name)
        full_names == UNION {Range(Ancestors(i)) : i \in 1..Len(mailbox_sizes)}
        DepthOf(full_name) ==
            LET i == Min({j \in 1..Len(mailbox_sizes) : full_name \in Range(Ancestors(j))})
            IN Min({index \in 1..Len(Ancestors(i)) : Ancestors(i)[index] = full_name}) - 1
        RECURSIVE CountOf(_, _)
        CountOf(full_name, n) ==
            IF n = 0 THEN 0
            ELSE CountOf(full_name, n - 1)
                 + (IF full_name \in Range(Ancestors(n))
                    THEN mailbox_sizes[n].message_count ELSE 0)
    IN SortByMailbox({[mailbox |-> full_name,
                       depth |-> DepthOf(full_name),
                       message_count |-> CountOf(full_name, Len(mailbox_sizes))]
                      : full_name \in full_names})

\* App::get_display_filter
GetDisplayFilter(mailbox_list, states) ==
    WithStates(
        WithMailboxOption(NewFilter,
            IF GetCursorItem(mailbox_list) = None THEN None
            ELSE Some(Unwrap(GetCursorItem(mailbox_list)).mailbox)),
        states)

\* a faulty variant of GetActionFilter: the message under the cursor is acted
\* on together with the selected ones
GetActionFilterWithCursor(message_list) ==
    LET selected_items == GetSelectedItems(message_list)
    IN WithIds(NewFilter,
           {selected_items[i].id : i \in 1..Len(selected_items)}
           \cup (IF GetCursorItem(message_list) = None THEN {}
                 ELSE {Unwrap(GetCursorItem(message_list)).id}))

\* App::get_action_filter
GetActionFilter(message_list) ==
    LET selected_items == GetSelectedItems(message_list)
        active_ids ==
            IF selected_items = <<>>
            THEN IF GetCursorItem(message_list) = None THEN {}
                 ELSE {Unwrap(GetCursorItem(message_list)).id}
            ELSE {selected_items[i].id : i \in 1..Len(selected_items)}
    IN WithIds(NewFilter, active_ids)

\* a faulty variant of CountDecreases: only the mailbox of the message itself loses it
CountDecreasesLeaf(removed, mailbox) ==
    Cardinality({i \in 1..Len(removed) : mailbox = removed[i].mailbox})

\* App::remove_messages_from_mailboxes: count_decreases[mailbox], one for every
\* message that has the mailbox among the ancestors of its own
CountDecreases(removed, mailbox) ==
    Cardinality({i \in 1..Len(removed) : mailbox \in Range(IterAncestors(removed[i].mailbox))})

\* usize::saturating_sub
SaturatingSub(a, b) == IF a > b THEN a - b ELSE 0

\* App::remove_messages_from_mailboxes
RemoveMessagesFromMailboxes(mailbox_list, removed) ==
    LET decreased ==
            [i \in 1..Len(mailbox_list.items) |->
                [mailbox_list.items[i] EXCEPT !.message_count =
                    SaturatingSub(@, CountDecreases(removed, mailbox_list.items[i].mailbox))]]
    IN ReplaceItems(mailbox_list, SelectSeq(decreased, LAMBDA row : row.message_count # 0))

\* a faulty variant of NeedsRefresh: the mutation never asks for a refresh
NeverRefresh(old_display_filter, display_filter) == FALSE

\* set_selected_message_states / delete_selected_messages: the refresh flag of
\* the request, old_display_filter != self.get_display_filter()
NeedsRefresh(old_display_filter, display_filter) == old_display_filter # display_filter

-----------------------------------------------------------------------------
(* The worker (cli/src/tui/worker.rs) and the requests of the App           *)

\* the number of requests the UI sends in a run
MaxRequests == 3

LoadKinds == {"LoadMessages", "LoadMailboxes"}
MutationKinds == {"ChangeMessageStates", "DeleteMessages"}

\* worker.rs enum Request.  seq and handled are history: the number of the
\* request in send order and the number of responses the UI had handled when
\* it sent the request
Request(kind, filter, new_state, refresh) ==
    [kind |-> kind, filter |-> filter, new_state |-> new_state, refresh |-> refresh,
     seq |-> 0, handled |-> 0]

\* the bound on the requests of a run
CanSend(n) == Len(tasks) + Len(rx_req) + n <= MaxRequests

\* worker_tx.send for each request in turn: the channel afterwards
Send(requests, handled) ==
    rx_req \o [k \in 1..Len(requests) |->
                 [requests[k] EXCEPT !.seq = Len(tasks) + Len(rx_req) + k,
                                     !.handled = handled]]

\* App::update_mailboxes: the request it sends
UpdateMailboxesRequest(states) ==
    Request("LoadMailboxes", WithStates(NewFilter, states), None, FALSE)

\* App::update_messages: the request it sends
UpdateMessagesRequest(mailbox_list, states) ==
    Request("LoadMessages", GetDisplayFilter(mailbox_list, states), None, FALSE)

\* a faulty variant of TaskProgram: a mutation task responds before it calls the backend
TaskProgramRespondFirst(kind) ==
    IF kind \in MutationKinds THEN <<"start", "finish", "send", "call">>
    ELSE <<"start", "call", "finish", "send">>

\* a faulty variant of TaskProgram: a mutation task sends its response as soon
\* as it has started
TaskProgramSendFirst(kind) ==
    IF kind \in MutationKinds THEN <<"start", "send", "call", "finish">>
    ELSE <<"start", "call", "finish", "send">>

\* worker.rs spawn: the steps of the task of a request, in program order.
\*   start   pending_requests.fetch_add(1); for a load, req_id = counter.next()
\*   call    the awaited backend call
\*   finish  pending_requests.fetch_sub(1); for a load, counter.last() == req_id
\*   send    tx_res.send(response)
TaskProgram(kind) == <<"start", "call", "finish", "send">>

\* the step a task is about to take
Step(task) ==
    IF task.pc > Len(TaskProgram(task.req.kind)) THEN "done"
    ELSE TaskProgram(task.req.kind)[task.pc]

\* the backend call of the task has returned
Called(task) ==
    \E k \in 1..(task.pc - 1) :
        k <= Len(TaskProgram(task.req.kind)) /\ TaskProgram(task.req.kind)[k] = "call"

\* the MonotonicCounter a load of this kind uses
Counter(kind) == IF kind = "LoadMessages" THEN message_counter ELSE mailbox_counter

\* a faulty variant of Fresh: a load is forwarded only while a fresher one runs
FreshWhenSuperseded(task) ==
    task.req.kind \in LoadKinds => Counter(task.req.kind) > task.req_id

\* a faulty variant of Fresh: the staleness rule is applied to every response
FreshLoadOnly(task) ==
    task.req.kind \in LoadKinds /\ Counter(task.req.kind) = task.req_id

\* worker.rs: a load is forwarded if counter.last() == req_id, a mutation always
Fresh(task) ==
    task.req.kind \in LoadKinds => Counter(task.req.kind) = task.req_id

\* worker.rs enum Response; task is history, the task that sent the response
ResponseOf(task, i) ==
    [kind |-> IF task.req.kind \in MutationKinds THEN "Mutated" ELSE task.req.kind,
     data |-> task.data,
     refresh |-> task.req.refresh,
     task |-> i]

\* worker.rs 58-64: the worker thread takes the next request off the channel
\* and spawns its task on the runtime
Recv ==
    /\ rx_req # <<>>
    /\ tasks' = Append(tasks, [req |-> Head(rx_req), pc |-> 1, req_id |-> 0, data |-> <<>>])
    /\ rx_req' = Tail(rx_req)
    /\ UNCHANGED <<storeVars, message_counter, mailbox_counter, pending_requests,
                   tx_res, applied, appVars, serverVars, runVars>>

\* the task counts itself as pending and a load takes its stamp
TaskStart(i) ==
    /\ Step(tasks[i]) = "start"
    /\ pending_requests' = pending_requests + 1
    /\ message_counter' = message_counter
                          + (IF tasks[i].req.kind = "LoadMessages" THEN 1 ELSE 0)
    /\ mailbox_counter' = mailbox_counter
                          + (IF tasks[i].req.kind = "LoadMailboxes" THEN 1 ELSE 0)
    /\ tasks' = [tasks EXCEPT ![i].pc = @ + 1,
                              ![i].req_id = IF tasks[i].req.kind \in LoadKinds
                                            THEN Counter(tasks[i].req.kind) + 1 ELSE 0]
    /\ UNCHANGED <<serverVars, runVars, storeVars, rx_req, tx_res, applied, appVars>>

\* the backend call of the task
TaskCall(i) ==
    /\ Step(tasks[i]) = "call"
    /\ LET req == tasks[i].req
       IN /\ table' =
                CASE req.kind = "ChangeMessageStates" ->
                        ChangeStateTable(table, req.filter, Unwrap(req.new_state))
                  [] req.kind = "DeleteMessages" -> DeleteMessagesTable(table, req.filter)
                  [] OTHER -> table
          /\ tasks' = [tasks EXCEPT
                ![i].pc = @ + 1,
                ![i].data =
                    CASE req.kind = "LoadMessages" -> LoadMessagesCall(table, req.filter)
                      [] req.kind = "LoadMailboxes" -> LoadMailboxesCall(table, req.filter)
                      [] OTHER -> <<>>]
    /\ UNCHANGED <<serverVars, runVars, next_id, clock, input, last, added, rx_req, message_counter,
                   mailbox_counter, pending_requests, tx_res, applied, appVars>>

\* the task is no longer pending; a load that is not the freshest ends here
TaskFinish(i) ==
    /\ Step(tasks[i]) = "finish"
    /\ pending_requests' = pending_requests - 1
    /\ tasks' = [tasks EXCEPT ![i].pc =
                    IF Fresh(tasks[i]) THEN @ + 1
                    ELSE Len(TaskProgram(tasks[i].req.kind)) + 1]
    /\ UNCHANGED <<serverVars, runVars, storeVars, rx_req, message_counter, mailbox_counter, tx_res,
                   applied, appVars>>

\* the task sends its response
TaskSend(i) ==
    /\ Step(tasks[i]) = "send"
    /\ tx_res' = Append(tx_res, ResponseOf(tasks[i], i))
    /\ tasks' = [tasks EXCEPT ![i].pc = @ + 1]
    /\ UNCHANGED <<serverVars, runVars, storeVars, rx_req, message_counter, mailbox_counter,
                   pending_requests, applied, appVars>>

-----------------------------------------------------------------------------
(* The handlers of the UI thread (cli/src/tui/app.rs, cli/src/tui/mod.rs)   *)

\* App::handle_worker_responses, one turn of its loop
HandleWorkerResponse ==
    /\ tx_res # <<>>
    /\ LET res == Head(tx_res)
           handled == Len(applied) + 1
           tree == ReplaceItems(mailboxes, BuildMailboxList(res.data))
           changed == GetDisplayFilter(mailboxes, active_states)
                        # GetDisplayFilter(tree, active_states)
       IN /\ tx_res' = Tail(tx_res)
          /\ applied' = Append(applied, res.task)
          /\ CASE res.kind = "LoadMessages" ->
                    /\ messages' = MultiselectReplaceItems(messages, res.data)
                    /\ UNCHANGED <<mailboxes, rx_req>>
               [] res.kind = "LoadMailboxes" ->
                    /\ mailboxes' = tree
                    /\ changed => CanSend(1)
                    /\ rx_req' = IF changed
                                 THEN Send(<<UpdateMessagesRequest(tree, active_states)>>,
                                           handled)
                                 ELSE rx_req
                    /\ UNCHANGED messages
               [] res.kind = "Mutated" ->
                    /\ res.refresh => CanSend(2)
                    /\ rx_req' = IF res.refresh
                                 THEN Send(<<UpdateMailboxesRequest(active_states),
                                             UpdateMessagesRequest(mailboxes, active_states)>>,
                                           handled)
                                 ELSE rx_req
                    /\ UNCHANGED <<mailboxes, messages>>
    /\ UNCHANGED <<storeVars, tasks, message_counter, mailbox_counter, pending_requests,
                   active_states, call, serverVars, runVars>>

\* App::toggle_active_state
ToggleActiveState(state) ==
    /\ CanSend(2)
    /\ active_states' = IF state \in active_states THEN active_states \ {state}
                        ELSE active_states \cup {state}
    /\ rx_req' = Send(<<UpdateMailboxesRequest(active_states'),
                        UpdateMessagesRequest(mailboxes, active_states')>>, Len(applied))
    /\ UNCHANGED <<storeVars, tasks, message_counter, mailbox_counter, pending_requests,
                   tx_res, applied, mailboxes, messages, call, serverVars, runVars>>

\* handle_global_key, 'R': update_mailboxes and update_messages
Reload ==
    /\ CanSend(2)
    /\ rx_req' = Send(<<UpdateMailboxesRequest(active_states),
                        UpdateMessagesRequest(mailboxes, active_states)>>, Len(applied))
    /\ UNCHANGED <<storeVars, tasks, message_counter, mailbox_counter, pending_requests,
                   tx_res, applied, appVars, serverVars, runVars>>

\* handle_message_key, Down / Up: messages.move_cursor_relative(change)
MessagesMoveCursor(change) ==
    /\ messages' = MultiselectSetCursor(messages, MoveCursorRelative(messages, change))
    /\ UNCHANGED <<serverVars, runVars, storeVars, workerVars, mailboxes, active_states, call>>

\* handle_message_key, ' ': messages.toggle_cursor_selected()
MessagesToggleCursorSelected ==
    /\ messages' = ToggleCursorSelected(messages)
    /\ UNCHANGED <<serverVars, runVars, storeVars, workerVars, mailboxes, active_states, call>>

\* App::set_selected_message_states
SetSelectedMessageStates(new_state) ==
    /\ CanSend(1)
    /\ LET action_filter == GetActionFilter(messages)
           display_filter == GetDisplayFilter(mailboxes, active_states)
           changed == [i \in 1..Len(messages.items) |->
                          IF MatchesMessage(action_filter, messages.items[i])
                          THEN [messages.items[i] EXCEPT !.state = new_state]
                          ELSE messages.items[i]]
           remaining == SelectSeq(changed, LAMBDA m : MatchesMessage(display_filter, m))
           removed == SelectSeq(changed, LAMBDA m : ~MatchesMessage(display_filter, m))
           tree == RemoveMessagesFromMailboxes(mailboxes, removed)
           refresh == NeedsRefresh(display_filter, GetDisplayFilter(tree, active_states))
       IN /\ messages' = MultiselectReplaceItems(messages, remaining)
          /\ mailboxes' = tree
          /\ rx_req' = Send(<<Request("ChangeMessageStates", action_filter,
                                      Some(new_state), refresh)>>, Len(applied))
          /\ call' = [op |-> "set_selected_message_states", removed |-> Len(removed),
                      refresh |-> refresh]
    /\ UNCHANGED <<storeVars, tasks, message_counter, mailbox_counter, pending_requests,
                   tx_res, applied, active_states, serverVars, runVars>>

\* App::delete_selected_messages
DeleteSelectedMessages ==
    /\ CanSend(1)
    /\ LET filter == GetActionFilter(messages)
           deleted == SelectSeq(messages.items, LAMBDA m : MatchesMessage(filter, m))
           remaining == SelectSeq(messages.items, LAMBDA m : ~MatchesMessage(filter, m))
           old_display_filter == GetDisplayFilter(mailboxes, active_states)
           tree == RemoveMessagesFromMailboxes(mailboxes, deleted)
           refresh == NeedsRefresh(old_display_filter, GetDisplayFilter(tree, active_states))
       IN /\ messages' = MultiselectReplaceItems(messages, remaining)
          /\ mailboxes' = tree
          /\ rx_req' = Send(<<Request("DeleteMessages", filter, None, refresh)>>,
                            Len(applied))
          /\ call' = [op |-> "delete_selected_messages", removed |-> Len(deleted),
                      refresh |-> refresh]
    /\ UNCHANGED <<storeVars, tasks, message_counter, mailbox_counter, pending_requests,
                   tx_res, applied, active_states, serverVars, runVars>>

-----------------------------------------------------------------------------
(* The specifications of the TUI *)

\* the rows the store holds when the TUI starts
SeedTable ==
    { [id |-> 1, timestamp |-> 0, mailbox |-> MbAB, content |-> ContentX, state |-> "Unread"],
      [id |-> 2, timestamp |-> 0, mailbox |-> MbAB, content |-> ContentY, state |-> "Read"],
      [id |-> 3, timestamp |-> 0, mailbox |-> MbB, content |-> ContentZ, state |-> "Unread"] }

\* App::new: the mailbox pane once the mailboxes are loaded and the cursor set
NewMailboxes(t, initial_mailbox, initial_states) ==
    LET loaded == ReplaceItems(NewTreeList,
                      BuildMailboxList(LoadMailboxesCall(t,
                          GetDisplayFilter(NewTreeList, initial_states))))
        position == {i \in 1..Len(loaded.items) :
                        loaded.items[i].mailbox = Unwrap(initial_mailbox)}
    IN IF initial_mailbox = None THEN loaded
       ELSE [loaded EXCEPT !.cursor = IF position = {} THEN None
                                      ELSE Some(Min(position) - 1)]

\* App::new: the message pane, loaded with the initial mailbox filter applied
NewMessages(t, initial_mailbox, initial_states) ==
    MultiselectReplaceItems(NewMultiselectList,
        LoadMessagesCall(t, GetDisplayFilter(NewMailboxes(t, initial_mailbox, initial_states),
                                             initial_states)))

\* the TUI started on the seeded store: the state after App::new and spawn
InitTui(initial_mailboxes, initial_states) ==
    /\ table = SeedTable /\ next_id = Cardinality(SeedTable) + 1 /\ clock = 0
    /\ last = NoCall /\ added = <<>>
    /\ input \in [initial_mailbox : initial_mailboxes, initial_states : initial_states]
    /\ WorkerIdle /\ RunIdle /\ ServerIdle
    /\ mailboxes = NewMailboxes(table, input.initial_mailbox, input.initial_states)
    /\ messages = NewMessages(table, input.initial_mailbox, input.initial_states)
    /\ active_states = input.initial_states
    /\ call = [op |-> "none", removed |-> 0, refresh |-> FALSE]

\* the arguments the TUI is started with
WorkerInitialMailboxes == {Some(MbAB), Some(MbB)}
WorkerInitialStates == {{"Unread", "Read"}}
WorkerToggleStates == {"Unread"}
WorkerNewStates == {"Archived"}

InitWorker == InitTui(WorkerInitialMailboxes, WorkerInitialStates)

NextWorker ==
    \/ Recv
    \/ \E i \in 1..Len(tasks) : TaskStart(i)
    \/ \E i \in 1..Len(tasks) : TaskCall(i)
    \/ \E i \in 1..Len(tasks) : TaskFinish(i)
    \/ \E i \in 1..Len(tasks) : TaskSend(i)
    \/ HandleWorkerResponse
    \/ \E state \in WorkerToggleStates : ToggleActiveState(state)
    \/ Reload
    \/ MessagesMoveCursor(1)
    \/ \E new_state \in WorkerNewStates : SetSelectedMessageStates(new_state)
    \/ DeleteSelectedMessages

SpecWorker == InitWorker /\ [][NextWorker]_vars

AppInitialMailboxes == {None, Some(MbA), Some(MbAB), Some(MbB)}
AppInitialStates == {{"Unread"}, {"Unread", "Read"}, States}

InitApp == InitTui(AppInitialMailboxes, AppInitialStates)

NextApp ==
    \/ \E state \in States : ToggleActiveState(state)
    \/ \E change \in {-1, 1} : MessagesMoveCursor(change)
    \/ MessagesToggleCursorSelected
    \/ \E new_state \in States : SetSelectedMessageStates(new_state)
    \/ DeleteSelectedMessages

SpecApp == InitApp /\ [][NextApp]_vars

-----------------------------------------------------------------------------
(* Claims about the worker, checked under SpecWorker *)

\* C1: the worker never forwards a LoadMessages or LoadMailboxes response once
\* a fresher request of the same kind has taken its next() stamp: whenever a
\* load task sends its response, its stamp is still the last one handed out.
C1_NeverForwardsSuperseded ==
    [][\A i \in 1..Len(tasks) :
          (TaskSend(i) /\ tasks[i].req.kind \in LoadKinds)
              => Counter(tasks[i].req.kind) = tasks[i].req_id]_vars

\* the tasks of the LoadMessages requests, numbered in send order
MessageLoads == {i \in 1..Len(tasks) : tasks[i].req.kind = "LoadMessages"}

\* every request sent has been received, every task has run to its end and
\* every response has been handled
Quiescent ==
    /\ rx_req = <<>>
    /\ tx_res = <<>>
    /\ \A i \in 1..Len(tasks) : Step(tasks[i]) = "done"

\* C2: when the UI sent LoadMessages(filter_A) and then LoadMessages(filter_B),
\* no other LoadMessages and no mutation, then once both tasks have finished and
\* their responses are handled, the messages list the UI holds is the result of
\* the request sent last.
C2_LatestLoadWins ==
    ( /\ Quiescent
      /\ Cardinality(MessageLoads) = 2
      /\ \A i \in 1..Len(tasks) : tasks[i].req.kind \notin MutationKinds )
    => messages.items = tasks[Max(MessageLoads)].data

\* C4: the backend calls run in send order: when the backend call of a load
\* runs, the call of every mutation that was sent before the load (and that
\* names a stored message) has returned, so that the load reflects it.
C4_BackendCallsInSendOrder ==
    [][\A j \in 1..Len(tasks) :
          (TaskCall(j) /\ tasks[j].req.kind \in LoadKinds) =>
              \A i \in 1..(j - 1) :
                  ( /\ tasks[i].req.kind \in MutationKinds
                    /\ \E row \in SeedTable : GetWhere(tasks[i].req.filter, row) )
                  => Called(tasks[i])]_vars

\* C4, as the worker keeps it: the tasks are spawned in send order, and when the
\* backend call of a load runs, the call of every mutation whose response the
\* UI had handled before it sent the load has returned.
C4_LoadAfterResponseSeesMutation ==
    /\ [](\A i \in 1..Len(tasks) : tasks[i].req.seq = i)
    /\ [][\A j \in 1..Len(tasks) :
            (TaskCall(j) /\ tasks[j].req.kind \in LoadKinds) =>
                \A k \in 1..tasks[j].req.handled :
                    tasks[applied[k]].req.kind \in MutationKinds
                        => Called(tasks[applied[k]])]_vars

\* C4 witness: the backend call of a load has run whose request the UI sent
\* after it had handled the response of a mutation
C4_Witness ==
    \E j \in 1..Len(tasks) :
        /\ tasks[j].req.kind \in LoadKinds
        /\ Called(tasks[j])
        /\ \E k \in 1..tasks[j].req.handled : tasks[applied[k]].req.kind \in MutationKinds

\* the tasks whose responses have been put on the response channel, in the
\* order the UI receives them
Arrived == applied \o [k \in 1..Len(tx_res) |-> tx_res[k].task]

-----------------------------------------------------------------------------
(* Claims about the optimistic updates, checked under SpecApp *)

\* a step of set_selected_message_states or delete_selected_messages
OptimisticUpdate ==
    \/ \E new_state \in States : SetSelectedMessageStates(new_state)
    \/ DeleteSelectedMessages

\* mailbox is the mailbox of the message or one of its ancestors
HoldsMessage(mailbox, message) ==
    mailbox = message.mailbox \/ StartsWith(message.mailbox, mailbox \o <<"/">>)

\* C6: immediately after set_selected_message_states(new) or
\* delete_selected_messages, the messages list holds exactly the previous
\* messages that still match the display filter after the in-memory mutation
\* (for delete: those the action filter does not match), in their previous
\* order, and every mailbox row has lost one from its count for every removed
\* message at or below it, the rows that reach zero being removed.
C6_OptimisticUpdate ==
    [][OptimisticUpdate =>
        LET req == rx_req'[Len(rx_req')]
            display_filter == GetDisplayFilter(mailboxes, active_states)
            After(m) == IF req.kind = "ChangeMessageStates" /\ MatchesMessage(req.filter, m)
                        THEN [m EXCEPT !.state = Unwrap(req.new_state)]
                        ELSE m
            Kept(m) == IF req.kind = "DeleteMessages"
                       THEN ~MatchesMessage(req.filter, m)
                       ELSE MatchesMessage(display_filter, After(m))
            kept == {i \in 1..Len(messages.items) : Kept(messages.items[i])}
            removed == {messages.items[i] : i \in (1..Len(messages.items)) \ kept}
            Lost(row) == Cardinality({m \in removed : HoldsMessage(row.mailbox, m)})
            left == {i \in 1..Len(mailboxes.items) :
                        mailboxes.items[i].message_count > Lost(mailboxes.items[i])}
        IN /\ Len(messages'.items) = Cardinality(kept)
           /\ \A i \in kept :
                 messages'.items[Cardinality({j \in kept : j <= i})] = After(messages.items[i])
           /\ Len(mailboxes'.items) = Cardinality(left)
           /\ \A i \in left :
                 mailboxes'.items[Cardinality({j \in left : j <= i})]
                     = [mailboxes.items[i] EXCEPT !.message_count = @ - Lost(mailboxes.items[i])]
    ]_vars

\* C6 witness: an optimistic update has removed a message from the list and
\* the tree has lost the row of mailbox b while the row of mailbox a is left
C6_Witness ==
    /\ call.op \in {"set_selected_message_states", "delete_selected_messages"}
    /\ call.removed >= 1
    /\ rx_req # <<>>
    /\ rx_req[Len(rx_req)].kind \in MutationKinds
    /\ \E i \in 1..Len(mailboxes.items) :
          /\ mailboxes.items[i].mailbox = MbA
          /\ mailboxes.items[i].message_count = 1
    /\ \A i \in 1..Len(mailboxes.items) : mailboxes.items[i].mailbox # MbB

\* C7: the mutation request is the last thing the handler does: it is appended
\* to the request channel with refresh set iff the display filter after the
\* optimistic update of the mailbox tree differs from the one before it, that
\* is iff the row under the mailbox cursor vanished.
C7_RefreshIffDisplayFilterChanged ==
    [][OptimisticUpdate =>
        LET req == rx_req'[Len(rx_req')]
            cursor_item == GetCursorItem(mailboxes)
            vanished ==
                /\ cursor_item # None
                /\ \A i \in 1..Len(mailboxes'.items) :
                      mailboxes'.items[i].mailbox # Unwrap(cursor_item).mailbox
        IN /\ Len(rx_req') = Len(rx_req) + 1
           /\ SubSeq(rx_req', 1, Len(rx_req)) = rx_req
           /\ req.kind \in MutationKinds
           /\ req.refresh = (GetDisplayFilter(mailboxes, active_states)
                               # GetDisplayFilter(mailboxes', active_states'))
           /\ req.refresh = vanished
    ]_vars

\* C7 witness: a mutation has been enqueued that asks for a refresh, and one
\* before it that does not
C7_Witness ==
    /\ call.op \in {"set_selected_message_states", "delete_selected_messages"}
    /\ call.refresh
    /\ Len(rx_req) >= 2
    /\ rx_req[Len(rx_req)].kind \in MutationKinds
    /\ rx_req[Len(rx_req)].refresh
    /\ rx_req[Len(rx_req) - 1].kind \in MutationKinds
    /\ ~rx_req[Len(rx_req) - 1].refresh

-----------------------------------------------------------------------------
(* The wire formats: the filter as a URL query, messages as JSON            *)
(* A comma-separated value is the sequence of its items, each item a string *)
(* ("1,a" is <<"1", "a">>, the empty value is <<>>).  A query is a record    *)
(* [ids, mailbox, states, extra]: the value of each key if the key is      *)
(* present, and whether a key unknown to the filter is present.             *)

\* the ids and the comma-separated items of the model
WireIds == 1..9
WireItems == {"1", "2", "3", "4", "5", "6", "7", "8", "9", "a",
              "unread", "read", "archived", "foo", "Read"}

\* <i32 as ToString>::to_string, as a function of the id
IdToString == [id \in WireIds |-> <<"1", "2", "3", "4", "5", "6", "7", "8", "9">>[id]]

\* <i32 as FromStr>::from_str, as a function of the item
IdFromStr ==
    [item \in WireItems |->
        IF \E id \in WireIds : IdToString[id] = item
        THEN Some(CHOOSE id \in WireIds : IdToString[id] = item)
        ELSE None]

\* message.rs: Display for State (and serde's rename_all = "lowercase")
StateToString ==
    [state \in States |->
        CASE state = "Unread" -> "unread"
          [] state = "Read" -> "read"
          [] state = "Archived" -> "archived"]

\* message.rs: FromStr for State (and serde's rename_all = "lowercase")
StateFromStr ==
    [value \in WireItems |->
        CASE value = "unread" -> Some("Unread")
          [] value = "read" -> Some("Read")
          [] value = "archived" -> Some("Archived")
          [] OTHER -> None]

\* a Vec holding the elements of the set, in some order
SetToSeq(S) == CHOOSE seq \in Orders(S) : TRUE

\* a faulty variant of SerializeVecToCsv: an empty Vec is left out like None
SerializeVecSkipEmpty(vec, to_string) ==
    IF vec = None \/ vec = Some({}) THEN None
    ELSE LET items == SetToSeq(Unwrap(vec))
         IN Some([i \in 1..Len(items) |-> to_string[items[i]]])

\* message_filter.rs serialize_vec_to_csv (with skip_serializing_if =
\* "Option::is_none": None leaves the key out)
SerializeVecToCsv(vec, to_string) ==
    IF vec = None THEN None
    ELSE LET items == SetToSeq(Unwrap(vec))
         IN Some([i \in 1..Len(items) |-> to_string[items[i]]])

\* message_filter.rs deserialize_vec_from_csv: [ok, value]
DeserializeVecFromCsv(csv, from_str) ==
    IF csv = None THEN [ok |-> TRUE, value |-> None]
    ELSE IF Unwrap(csv) = <<>> THEN [ok |-> TRUE, value |-> Some({})]
    ELSE LET items == Unwrap(csv)
         IN IF \E i \in 1..Len(items) : from_str[items[i]] = None
            THEN [ok |-> FALSE, value |-> None]
            ELSE [ok |-> TRUE,
                  value |-> Some({Unwrap(from_str[items[i]]) : i \in 1..Len(items)})]

\* message_filter.rs: Serialize for MessageFilter, through serde_urlencoded
SerializeFilter(f) ==
    [ids |-> SerializeVecToCsv(f.ids, IdToString),
     mailbox |-> f.mailbox,
     states |-> SerializeVecToCsv(f.states, StateToString),
     extra |-> FALSE]

\* message_filter.rs: Deserialize for MessageFilter (deny_unknown_fields; the
\* mailbox is the derived Deserialize of the newtype Mailbox, which takes any
\* string): [ok, filter]
DeserializeFilter(query) ==
    LET ids == DeserializeVecFromCsv(query.ids, IdFromStr)
        states == DeserializeVecFromCsv(query.states, StateFromStr)
    IN IF query.extra \/ ~ids.ok \/ ~states.ok
       THEN [ok |-> FALSE, filter |-> NewFilter]
       ELSE [ok |-> TRUE,
             filter |-> [ids |-> ids.value, mailbox |-> query.mailbox,
                         states |-> states.value]]

\* new_message.rs: Serialize for NewMessage, as a JSON object
\* [mailbox, content, state, extra]; extra tells whether an unknown key is present
SerializeNewMessage(message) ==
    [mailbox |-> message.mailbox, content |-> message.content,
     state |-> IF message.state = None THEN None
               ELSE Some(StateToString[Unwrap(message.state)]),
     extra |-> FALSE]

\* new_message.rs: Deserialize for NewMessage (deny_unknown_fields; mailbox.rs
\* 7-8: the derived Deserialize of Mailbox takes any string, TryFrom<String>
\* is not involved): [ok, message]
DeserializeNewMessage(object) ==
    IF object.extra \/ (object.state # None /\ StateFromStr[Unwrap(object.state)] = None)
    THEN [ok |-> FALSE, message |-> <<>>]
    ELSE [ok |-> TRUE,
          message |-> [mailbox |-> object.mailbox, content |-> object.content,
                       state |-> IF object.state = None THEN None
                                 ELSE StateFromStr[Unwrap(object.state)]]]

\* server main.rs: the untagged enum CreateMessage, one message or an array of
\* them; a body is [shape, items] with shape "object", "array" or "other":
\* [ok, messages]
DeserializeCreateMessage(body) ==
    IF body.shape = "other" \/ (body.shape = "object" /\ Len(body.items) # 1)
         \/ \E i \in 1..Len(body.items) : ~DeserializeNewMessage(body.items[i]).ok
    THEN [ok |-> FALSE, messages |-> <<>>]
    ELSE [ok |-> TRUE,
          messages |-> [i \in 1..Len(body.items) |->
                            DeserializeNewMessage(body.items[i]).message]]

\* server main.rs: Deserialize for UpdateMessages (deny_unknown_fields); a body
\* is [new_state, extra]: [ok, new_state]
DeserializeUpdateMessages(body) ==
    IF body.extra \/ StateFromStr[body.new_state] = None
    THEN [ok |-> FALSE, new_state |-> "Unread"]
    ELSE [ok |-> TRUE, new_state |-> Unwrap(StateFromStr[body.new_state])]

\* message.rs: Serialize for Message, as a JSON object
SerializeMessage(message) == [message EXCEPT !.state = StateToString[message.state]]

\* message.rs: Deserialize for Message; the states the server writes parse
DeserializeMessage(object) == [object EXCEPT !.state = Unwrap(StateFromStr[object.state])]

\* serde_json of a Vec<Message>
SerializeMessages(ms) == [i \in 1..Len(ms) |-> SerializeMessage(ms[i])]
DeserializeMessages(objects) == [i \in 1..Len(objects) |-> DeserializeMessage(objects[i])]

-----------------------------------------------------------------------------
(* The HTTP server (server/src/main.rs)                                     *)
(* A request is [method, path, authorization, query, body]; the outcome of  *)
(* serving it is [kind, status, headers, body, table, next_id], where kind  *)
(* is "response", or "panic" when the handler panicked and the connection   *)
(* was dropped without a response.                                          *)

HandlerResponse(status, body, t, nid) ==
    [kind |-> "response", status |-> status, headers |-> {}, body |-> body,
     table |-> t, next_id |-> nid]

HandlerPanic(t, nid) ==
    [kind |-> "panic", status |-> 0, headers |-> {}, body |-> <<>>,
     table |-> t, next_id |-> nid]

\* message.rs from_row: `try_get("mailbox")?.try_into().unwrap()` panics on a
\* row whose mailbox TryFrom<String> rejects
FromRowPanics(rows) == \E row \in rows : ~ValidMailbox(row.mailbox)

\* server main.rs read_mailboxes; load_mailboxes converts each name with
\* try_into()?, an error that becomes 500
read_mailboxes(t, nid, req) ==
    LET parsed == DeserializeFilter(req.query)
        infos == LoadMailboxesCall(t, parsed.filter)
    IN IF ~parsed.ok THEN HandlerResponse(400, <<>>, t, nid)
       ELSE IF \E i \in 1..Len(infos) : ~ValidMailbox(infos[i].name)
            THEN HandlerResponse(500, <<>>, t, nid)
            ELSE HandlerResponse(200, infos, t, nid)

\* server main.rs read_messages
read_messages(t, nid, req) ==
    LET parsed == DeserializeFilter(req.query)
    IN IF ~parsed.ok THEN HandlerResponse(400, <<>>, t, nid)
       ELSE IF FromRowPanics({row \in t : GetWhere(parsed.filter, row)})
            THEN HandlerPanic(t, nid)
            ELSE HandlerResponse(200, SerializeMessages(LoadMessagesCall(t, parsed.filter)),
                                 t, nid)

\* server main.rs create_messages: every error of add_messages is mapped with
\* ErrorInternalServerError; the INSERT has run when from_row decodes the
\* RETURNING rows, so a panic there leaves the rows stored
create_messages(t, nid, now, req) ==
    LET parsed == DeserializeCreateMessage(req.body)
        r == DatabaseAddMessagesCall(t, nid, now, parsed.messages)
    IN IF ~parsed.ok THEN HandlerResponse(400, <<>>, t, nid)
       ELSE IF ~r.ok THEN HandlerResponse(500, <<>>, r.table, r.next_id)
       ELSE IF FromRowPanics(Range(r.result)) THEN HandlerPanic(r.table, r.next_id)
       ELSE HandlerResponse(200, SerializeMessages(r.result), r.table, r.next_id)

\* server main.rs update_messages; returning is the order in which RETURNING
\* hands out the updated rows
update_messages(t, nid, now, req, returning) ==
    LET parsed == DeserializeFilter(req.query)
        update == DeserializeUpdateMessages(req.body)
        after == ChangeStateTable(t, parsed.filter, update.new_state)
    IN IF ~parsed.ok \/ ~update.ok THEN HandlerResponse(400, <<>>, t, nid)
       ELSE IF FromRowPanics(Range(returning)) THEN HandlerPanic(after, nid)
       ELSE HandlerResponse(200, SerializeMessages(SortByTimestampDesc(returning, now)),
                            after, nid)

\* server main.rs delete_messages
delete_messages(t, nid, now, req, returning) ==
    LET parsed == DeserializeFilter(req.query)
        after == DeleteMessagesTable(t, parsed.filter)
    IN IF ~parsed.ok THEN HandlerResponse(400, <<>>, t, nid)
       ELSE IF MatchesAll(parsed.filter) THEN HandlerResponse(400, <<>>, t, nid)
       ELSE IF FromRowPanics(Range(returning)) THEN HandlerPanic(after, nid)
       ELSE HandlerResponse(200, SerializeMessages(SortByTimestampDesc(returning, now)),
                            after, nid)

\* the route of a request: the name of the handler registered for its method
\* and path, "default" when none is
RouteOf(req) ==
    CASE req.method = "GET" /\ req.path = "/mailboxes" -> "read_mailboxes"
      [] req.method = "GET" /\ req.path = "/messages" -> "read_messages"
      [] req.method = "POST" /\ req.path = "/messages" -> "create_messages"
      [] req.method = "PUT" /\ req.path = "/messages" -> "update_messages"
      [] req.method = "DELETE" /\ req.path = "/messages" -> "delete_messages"
      [] OTHER -> "default"

\* the services of web::scope(""): the five handlers and the default 404
ScopeServices(t, nid, now, req, returning) ==
    CASE RouteOf(req) = "read_mailboxes" -> read_mailboxes(t, nid, req)
      [] RouteOf(req) = "read_messages" -> read_messages(t, nid, req)
      [] RouteOf(req) = "create_messages" -> create_messages(t, nid, now, req)
      [] RouteOf(req) = "update_messages" -> update_messages(t, nid, now, req, returning)
      [] RouteOf(req) = "delete_messages" -> delete_messages(t, nid, now, req, returning)
      [] OTHER -> HandlerResponse(404, <<>>, t, nid)

\* format!("Bearer {token}")
BearerHeader(token) == <<"B", "e", "a", "r", "e", "r", " ">> \o token

\* a faulty variant of Admits: any header that starts like the expected one
AdmitsPrefix(token, req) ==
    \/ token = None
    \/ /\ req.authorization # None
       /\ StartsWith(Unwrap(req.authorization), BearerHeader(Unwrap(token)))

\* get_config_factory, the condition of wrap_fn: auth_header.is_none() ||
\* req.headers().get("Authorization") == auth_header.as_ref()
Admits(token, req) ==
    \/ token = None
    \/ req.authorization = Some(BearerHeader(Unwrap(token)))

\* get_config_factory, wrap_fn: the auth gate around the services
AuthGate(token, t, nid, now, req, returning) ==
    IF Admits(token, req) THEN ScopeServices(t, nid, now, req, returning)
    ELSE HandlerResponse(403, <<>>, t, nid)

\* DefaultHeaders::new().add((ACCESS_CONTROL_ALLOW_ORIGIN, "*")) on a response
DefaultHeaders(res) ==
    IF res.kind = "response"
    THEN [res EXCEPT !.headers = @ \cup {<<"access-control-allow-origin", "*">>}]
    ELSE res

\* a faulty variant of Serve: the auth gate registered as the outer middleware
ServeGateOutermost(token, t, nid, now, req, returning) ==
    IF Admits(token, req)
    THEN DefaultHeaders(ScopeServices(t, nid, now, req, returning))
    ELSE HandlerResponse(403, <<>>, t, nid)

\* get_config_factory: the scope with its two middlewares; the one registered
\* last (DefaultHeaders) is the outermost
Serve(token, t, nid, now, req, returning) ==
    DefaultHeaders(AuthGate(token, t, nid, now, req, returning))

\* the rows the statement of the request hands out through RETURNING: those of
\* an admitted, well-formed PUT or DELETE that reaches the store
ReturningRows(token, t, req) ==
    LET parsed == DeserializeFilter(req.query)
    IN IF ~Admits(token, req) \/ ~parsed.ok THEN {}
       ELSE IF RouteOf(req) = "update_messages" /\ DeserializeUpdateMessages(req.body).ok
            THEN ChangeStateReturning(t, parsed.filter,
                                      DeserializeUpdateMessages(req.body).new_state)
       ELSE IF RouteOf(req) = "delete_messages" /\ ~MatchesAll(parsed.filter)
            THEN DeleteMessagesReturning(t, parsed.filter)
       ELSE {}

\* the number of rows ever inserted through the server
MaxServerId == 2

\* The requests of the model
TokenT == <<"t">>
ServerTokens == {None, Some(TokenT)}
Authorizations == {None, Some(BearerHeader(TokenT)), Some(BearerHeader(<<"t", "u">>))}
NoQuery == [ids |-> None, mailbox |-> None, states |-> None, extra |-> FALSE]
Queries ==
    { NoQuery,
      [NoQuery EXCEPT !.ids = Some(<<>>)],
      [NoQuery EXCEPT !.ids = Some(<<"1">>)],
      [NoQuery EXCEPT !.ids = Some(<<"1", "a">>)],
      [NoQuery EXCEPT !.mailbox = Some(MbAB)],
      [NoQuery EXCEPT !.states = Some(<<"unread">>)],
      [NoQuery EXCEPT !.states = Some(<<"unread", "foo">>)],
      [NoQuery EXCEPT !.extra = TRUE] }
NoBody == [shape |-> "none", items |-> <<>>]

\* the bodies sent to POST /messages: JSON objects of two valid messages, of
\* one with empty content, of one whose mailbox TryFrom<String> rejects, of
\* one whose state is no State and of one with an unknown key
CreateBodies ==
    LET JsonX == [mailbox |-> MbB, content |-> ContentX, state |-> None, extra |-> FALSE]
        JsonY == [mailbox |-> MbAB, content |-> ContentY, state |-> Some("read"),
                  extra |-> FALSE]
    IN { [shape |-> "object", items |-> <<JsonX>>],
         [shape |-> "array", items |-> <<JsonX, JsonY>>],
         [shape |-> "array", items |-> <<JsonY, [JsonX EXCEPT !.content = <<>>]>>],
         [shape |-> "object", items |-> <<[JsonX EXCEPT !.mailbox = <<"a", "/", "/", "b">>]>>],
         [shape |-> "object", items |-> <<[JsonX EXCEPT !.state = Some("Read")]>>],
         [shape |-> "object", items |-> <<[JsonX EXCEPT !.extra = TRUE]>>],
         [shape |-> "array", items |-> <<>>],
         [shape |-> "other", items |-> <<>>] }

UpdateBodies ==
    { [new_state |-> "archived", extra |-> FALSE],
      [new_state |-> "foo", extra |-> FALSE] }

\* the server receives the request and serves it to the end
ServeRequest(req) ==
    /\ RouteOf(req) = "create_messages" => next_id + Len(req.body.items) <= MaxServerId + 1
    /\ \E returning \in Orders(ReturningRows(auth_token, table, req)) :
          LET r == Serve(auth_token, table, next_id, clock, req, returning)
          IN /\ request' = req
             /\ response' = [kind |-> r.kind, status |-> r.status,
                             headers |-> r.headers, body |-> r.body]
             /\ table' = r.table
             /\ next_id' = r.next_id
    /\ UNCHANGED <<clock, input, last, added, auth_token, runVars, workerVars, appVars>>

\* Each request is built when its action is taken: the body of an action is a
\* conjunction, so TLC evaluates the quantifier and the request record in the
\* step of the worker thread that takes it.

\* GET /mailboxes
GetMailboxes ==
    /\ \E authorization \in Authorizations : \E query \in Queries :
           ServeRequest([method |-> "GET", path |-> "/mailboxes",
                         authorization |-> authorization, query |-> query, body |-> NoBody])

\* GET /messages
GetMessages ==
    /\ \E authorization \in Authorizations : \E query \in Queries :
           ServeRequest([method |-> "GET", path |-> "/messages",
                         authorization |-> authorization, query |-> query, body |-> NoBody])

\* POST /messages
PostMessages ==
    /\ \E authorization \in Authorizations : \E body \in CreateBodies :
           ServeRequest([method |-> "POST", path |-> "/messages",
                         authorization |-> authorization, query |-> NoQuery, body |-> body])

\* PUT /messages
PutMessages ==
    /\ \E authorization \in Authorizations : \E query \in Queries : \E body \in UpdateBodies :
           ServeRequest([method |-> "PUT", path |-> "/messages",
                         authorization |-> authorization, query |-> query, body |-> body])

\* DELETE /messages
DeleteMessagesRequest ==
    /\ \E authorization \in Authorizations : \E query \in Queries :
           ServeRequest([method |-> "DELETE", path |-> "/messages",
                         authorization |-> authorization, query |-> query, body |-> NoBody])

\* a request no handler is registered for
OtherRequest ==
    /\ \E authorization \in Authorizations :
           ServeRequest([method |-> "GET", path |-> "/", authorization |-> authorization,
                         query |-> NoQuery, body |-> NoBody])

\* main: the server started on an empty store, with or without a token
InitServer ==
    /\ table = {} /\ next_id = 1 /\ clock = 0 /\ last = NoCall /\ added = <<>>
    /\ input = [batch |-> <<>>, filter |-> NewFilter]
    /\ auth_token \in ServerTokens /\ request = NoRequest /\ response = NoResponse
    /\ WorkerIdle /\ RunIdle /\ AppIdle

NextServer ==
    \/ GetMailboxes
    \/ GetMessages
    \/ PostMessages
    \/ PutMessages
    \/ DeleteMessagesRequest
    \/ OtherRequest

SpecServer == InitServer /\ [][NextServer]_vars

-----------------------------------------------------------------------------
(* Properties of the server, checked under SpecServer *)

\* C12: whatever requests were served, every stored message has non-empty
\* content, a mailbox that satisfies the Mailbox rules (non-empty, no leading
\* or trailing '/', no "//", no '%') and a state in {0, 1, 2}
C12_StoredMessagesValid ==
    \A row \in table :
        /\ row.content # <<>>
        /\ ValidMailbox(row.mailbox)
        /\ StateToInt(row.state) \in {0, 1, 2}

\* C13: an admitted DELETE /messages whose filter is unconstrained is answered
\* 400 and deletes nothing; one whose filter has a field present is passed to
\* the store, which deletes what the filter selects
C13_DeleteNeedsFilter ==
    [][(/\ RouteOf(request') = "delete_messages"
        /\ Admits(auth_token, request')
        /\ DeserializeFilter(request'.query).ok)
       => LET filter == DeserializeFilter(request'.query).filter
          IN IF filter.ids = None /\ filter.mailbox = None /\ filter.states = None
             THEN /\ response'.kind = "response" /\ response'.status = 400
                  /\ table' = table
             ELSE /\ response'.status # 400
                  /\ table' = DeleteMessagesTable(table, filter)]_vars

\* C13 witness: DELETE /messages without a query was refused on a store that
\* holds messages
C13_Witness ==
    /\ request.method = "DELETE" /\ request.path = "/messages"
    /\ request.query = NoQuery
    /\ Admits(auth_token, request)
    /\ response.status = 400
    /\ table # {}

\* C14: with a token configured, a request whose Authorization header is not
\* exactly "Bearer <token>" (or is missing) is answered 403 and the store is
\* untouched; a request with exactly that header, and every request when no
\* token is configured, is passed on and never answered 403
C14_AuthGate ==
    [][IF auth_token # None
          /\ request'.authorization # Some(BearerHeader(Unwrap(auth_token)))
       THEN /\ response'.kind = "response" /\ response'.status = 403
            /\ table' = table /\ next_id' = next_id
       ELSE response'.status # 403]_vars

\* C14 witness: a DELETE selecting stored messages, sent with a header that
\* only starts with the expected value, was answered 403
C14_Witness ==
    /\ auth_token = Some(TokenT)
    /\ request.method = "DELETE"
    /\ request.query = [NoQuery EXCEPT !.ids = Some(<<"1">>)]
    /\ request.authorization = Some(BearerHeader(<<"t", "u">>))
    /\ response.status = 403
    /\ \E row \in table : row.id = 1

\* C15: every response carries Access-Control-Allow-Origin: *, the 403 of the
\* auth gate and the 4xx and 5xx of the handlers included
C15_CorsOnEveryResponse ==
    response.kind = "response" =>
        <<"access-control-allow-origin", "*">> \in response.headers

\* C15 witness: a 403 of the auth gate carrying the header
C15_Witness ==
    /\ response.kind = "response"
    /\ response.status = 403
    /\ <<"access-control-allow-origin", "*">> \in response.headers

\* the request fails validation: a query the filter cannot be parsed from, or
\* a well-formed body holding a message with empty content or with a mailbox
\* that breaks the Mailbox rules
ValidationFailure(req) ==
    \/ /\ RouteOf(req) \in {"read_mailboxes", "read_messages", "update_messages",
                            "delete_messages"}
       /\ ~DeserializeFilter(req.query).ok
    \/ /\ RouteOf(req) = "create_messages"
       /\ DeserializeCreateMessage(req.body).ok
       /\ \E i \in 1..Len(req.body.items) :
             \/ req.body.items[i].content = <<>>
             \/ ~ValidMailbox(req.body.items[i].mailbox)

\* C16: the server answers every validation failure (empty content, malformed
\* mailbox, bad filter query) with a 4xx status and does not change the store
C16_ValidationIs4xx ==
    [][(Admits(auth_token, request') /\ ValidationFailure(request'))
       => /\ response'.kind = "response"
          /\ response'.status \in 400..499
          /\ table' = table]_vars

-----------------------------------------------------------------------------
(* The HTTP backend (database/src/http_backend.rs) calling the server        *)
(* A call is [op, batch, filter, new_state]: the Backend method and its     *)
(* arguments.                                                               *)

\* HttpBackend::new and the five methods: the request the client sends for
\* the call; its default Authorization header is "Bearer {api_token}"
HttpRequest(api_token, c) ==
    LET authorization ==
            IF api_token = None THEN None ELSE Some(BearerHeader(Unwrap(api_token)))
        base == [method |-> "GET", path |-> "/messages", authorization |-> authorization,
                 query |-> SerializeFilter(c.filter), body |-> NoBody]
    IN CASE c.op = "add_messages" ->
                [base EXCEPT !.method = "POST", !.query = NoQuery,
                             !.body = [shape |-> "array",
                                       items |-> [i \in 1..Len(c.batch) |->
                                                     SerializeNewMessage(c.batch[i])]]]
         [] c.op = "load_messages" -> base
         [] c.op = "change_state" ->
                [base EXCEPT !.method = "PUT",
                             !.body = [new_state |-> StateToString[c.new_state],
                                       extra |-> FALSE]]
         [] c.op = "delete_messages" -> [base EXCEPT !.method = "DELETE"]
         [] c.op = "load_mailboxes" -> [base EXCEPT !.path = "/mailboxes"]

\* the five methods, after send(): make_error unless the status is a success,
\* else the body parsed as JSON: [ok, result]
HttpResult(c, res) ==
    IF res.kind = "response" /\ res.status \in 200..299
    THEN [ok |-> TRUE,
          result |-> IF c.op = "load_mailboxes" THEN res.body
                     ELSE DeserializeMessages(res.body)]
    ELSE [ok |-> FALSE, result |-> <<>>]

\* the rows the statement of the call hands out through RETURNING
ReturnedBy(t, c) ==
    CASE c.op = "change_state" -> ChangeStateReturning(t, c.filter, c.new_state)
      [] c.op = "delete_messages" -> DeleteMessagesReturning(t, c.filter)
      [] OTHER -> {}

\* the call made on SqliteBackend directly: [ok, result, table, next_id]; ok
\* is FALSE when the method returns an error or panics in Message::from_row
SqliteBackendCall(t, nid, now, c, returning) ==
    LET failed(after, id) ==
            [ok |-> FALSE, result |-> <<>>, table |-> after, next_id |-> id]
        done(result, after, id) ==
            [ok |-> TRUE, result |-> result, table |-> after, next_id |-> id]
    IN CASE c.op = "add_messages" ->
                LET r == AddMessagesCall(t, nid, now, c.batch)
                IN IF ~r.ok \/ FromRowPanics(Range(r.result))
                   THEN failed(r.table, r.next_id)
                   ELSE done(r.result, r.table, r.next_id)
         [] c.op = "load_messages" ->
                IF FromRowPanics({row \in t : GetWhere(c.filter, row)})
                THEN failed(t, nid)
                ELSE done(LoadMessagesCall(t, c.filter), t, nid)
         [] c.op = "change_state" ->
                IF FromRowPanics(Range(returning))
                THEN failed(ChangeStateTable(t, c.filter, c.new_state), nid)
                ELSE done(SortByTimestampDesc(returning, now),
                          ChangeStateTable(t, c.filter, c.new_state), nid)
         [] c.op = "delete_messages" ->
                IF FromRowPanics(Range(returning))
                THEN failed(DeleteMessagesTable(t, c.filter), nid)
                ELSE done(SortByTimestampDesc(returning, now),
                          DeleteMessagesTable(t, c.filter), nid)
         [] c.op = "load_mailboxes" ->
                LET infos == LoadMailboxesCall(t, c.filter)
                IN IF \E i \in 1..Len(infos) : ~ValidMailbox(infos[i].name)
                   THEN failed(t, nid)
                   ELSE done(infos, t, nid)

\* The arguments of the model: the filters and batches the client passes
HttpFilters ==
    { NewFilter,
      WithIds(NewFilter, {}),
      WithIds(NewFilter, {1}),
      WithMailbox(NewFilter, MbAB),
      WithStates(NewFilter, {"Unread"}),
      WithStates(WithIds(NewFilter, {1, 2}), {"Read", "Archived"}) }

HttpBatches ==
    LET x == [mailbox |-> MbB, content |-> ContentX, state |-> None]
        y == [mailbox |-> MbAB, content |-> ContentY, state |-> Some("Read")]
    IN { <<>>, <<x>>, <<x, y>>, <<y, [x EXCEPT !.content = <<>>]>>,
         <<[x EXCEPT !.mailbox = <<"a", "/", "/", "b">>]>> }

NoArguments == [op |-> "none", batch |-> <<>>, filter |-> NewFilter, new_state |-> "Unread"]

\* a method of HttpBackend, from the request to the parsed answer, the server
\* serving the request in between
HttpCall(c) ==
    /\ c.op = "add_messages" => next_id + Len(c.batch) <= MaxServerId + 1
    /\ LET req == HttpRequest(auth_token, c)
       IN \E returning \in Orders(ReturningRows(auth_token, table, req)) :
             LET r == Serve(auth_token, table, next_id, clock, req, returning)
                 answer == HttpResult(c, r)
             IN /\ request' = req
                /\ response' = [kind |-> r.kind, status |-> r.status,
                                headers |-> r.headers, body |-> r.body]
                /\ table' = r.table
                /\ next_id' = r.next_id
                /\ input' = c
                /\ last' = [op |-> c.op, new_state |-> None, ok |-> answer.ok,
                            result |-> answer.result]
    /\ UNCHANGED <<clock, added, auth_token, runVars, workerVars, appVars>>

\* HttpBackend::add_messages
HttpAddMessages ==
    /\ \E batch \in HttpBatches :
           HttpCall([NoArguments EXCEPT !.op = "add_messages", !.batch = batch])

\* HttpBackend::load_messages
HttpLoadMessages ==
    /\ \E filter \in HttpFilters :
           HttpCall([NoArguments EXCEPT !.op = "load_messages", !.filter = filter])

\* HttpBackend::change_state
HttpChangeState ==
    /\ \E filter \in HttpFilters : \E new_state \in {"Read", "Archived"} :
           HttpCall([NoArguments EXCEPT !.op = "change_state", !.filter = filter,
                                        !.new_state = new_state])

\* HttpBackend::delete_messages
HttpDeleteMessages ==
    /\ \E filter \in HttpFilters :
           HttpCall([NoArguments EXCEPT !.op = "delete_messages", !.filter = filter])

\* HttpBackend::load_mailboxes
HttpLoadMailboxes ==
    /\ \E filter \in HttpFilters :
           HttpCall([NoArguments EXCEPT !.op = "load_mailboxes", !.filter = filter])

\* the server started on an empty store and a client built with its token
InitHttp ==
    /\ table = {} /\ next_id = 1 /\ clock = 0 /\ last = NoCall /\ added = <<>>
    /\ input = NoArguments
    /\ auth_token \in ServerTokens /\ request = NoRequest /\ response = NoResponse
    /\ WorkerIdle /\ RunIdle /\ AppIdle

NextHttp ==
    \/ HttpAddMessages
    \/ HttpLoadMessages
    \/ HttpChangeState
    \/ HttpDeleteMessages
    \/ HttpLoadMailboxes

SpecHttp == InitHttp /\ [][NextHttp]_vars

-----------------------------------------------------------------------------
(* Properties of the HTTP backend, checked under SpecHttp *)

\* the call had over HTTP what it has on SqliteBackend: both fail or both
\* return the same value, and the store ends up the same
SameAsSqliteBackend ==
    \E returning \in Orders(ReturnedBy(table, input')) :
        LET embedded == SqliteBackendCall(table, next_id, clock, input', returning)
        IN /\ last'.ok = embedded.ok
           /\ embedded.ok => last'.result = embedded.result
           /\ table' = embedded.table
           /\ next_id' = embedded.next_id

\* C17: for each of the five operations and every input, every filter and the
\* unconstrained one included, the HTTP backend against the server returns
\* the same result and has the same effect as the SQLite backend
C17_BackendsInterchangeable == [][SameAsSqliteBackend]_vars

\* C17, amended: as above for every call but delete_messages with the
\* unconstrained filter, which over HTTP fails and deletes nothing
C17_InterchangeableButUnfilteredDelete ==
    [][IF input'.op = "delete_messages" /\ MatchesAll(input'.filter)
       THEN ~last'.ok /\ table' = table /\ next_id' = next_id
       ELSE SameAsSqliteBackend]_vars

\* C17 witness: delete_messages over HTTP returned the messages of a mailbox it
\* deleted, and a message of another mailbox stays
C17_Witness ==
    /\ input.op = "delete_messages"
    /\ input.filter = WithMailbox(NewFilter, MbAB)
    /\ last.ok /\ Len(last.result) = 1
    /\ table # {}

-----------------------------------------------------------------------------
(* Claims about the action filter, checked under SpecApp *)

\* C24: the action filter of a mutation names the selected messages when at
\* least one is selected (the message under the cursor only if it is selected),
\* else the message under the cursor, else no message: with no selection and
\* no cursor a state change or a delete changes no message in the list and
\* none in the store.
C24_ActionFilter ==
    [][( /\ Len(rx_req') = Len(rx_req) + 1
         /\ rx_req'[Len(rx_req')].kind \in MutationKinds ) =>
        LET req == rx_req'[Len(rx_req')]
            items == messages.items
            selected == {items[i].id : i \in {k \in 1..Len(items) :
                                                 items[k].id \in messages.selected_items}}
            under_cursor == IF messages.cursor = None THEN {}
                            ELSE {items[Unwrap(messages.cursor) + 1].id}
            kept == {i \in 1..Len(items) :
                        MatchesMessage(GetDisplayFilter(mailboxes, active_states), items[i])}
        IN /\ req.filter = [ids |-> Some(IF selected # {} THEN selected ELSE under_cursor),
                            mailbox |-> None, states |-> None]
           /\ (selected = {} /\ under_cursor = {}) =>
                 /\ \A m \in table : ~GetWhere(req.filter, m)
                 /\ \A new_state \in States :
                       /\ ChangeStateTable(table, req.filter, new_state) = table
                       /\ ChangeStateReturning(table, req.filter, new_state) = {}
                 /\ DeleteMessagesTable(table, req.filter) = table
                 /\ DeleteMessagesReturning(table, req.filter) = {}
                 /\ IF req.kind = "DeleteMessages"
                    THEN messages'.items = items
                    ELSE /\ Len(messages'.items) = Cardinality(kept)
                         /\ \A i \in kept :
                               messages'.items[Cardinality({j \in kept : j <= i})] = items[i]
    ]_vars

\* C24 witness: a mutation was sent with neither a selection nor a cursor, and
\* later one that names two selected messages
C24_Witness ==
    \E p, q \in 1..Len(rx_req) :
        /\ p < q
        /\ rx_req[p].kind \in MutationKinds
        /\ rx_req[p].filter.ids = Some({})
        /\ rx_req[q].kind \in MutationKinds
        /\ rx_req[q].filter.ids = Some({1, 2})
        /\ call.op \in {"set_selected_message_states", "delete_selected_messages"}

-----------------------------------------------------------------------------
(* The mailbox tree: build_mailbox_list and the cursor of the TreeList      *)
(* (cli/src/tui/app.rs, src/tui/tree_list.rs)                               *)

\* a faulty variant of NextSibling: only an item of the same depth is a sibling
NextSiblingSameDepth(list) ==
    IF GetCursorItem(list) = None
    THEN [list EXCEPT !.cursor = MoveCursorRelative(list, 1)]
    ELSE LET current_depth == Unwrap(GetCursorItem(list)).depth
             found == {index \in (Unwrap(list.cursor) + 1)..(Len(list.items) - 1) :
                          list.items[index + 1].depth = current_depth}
         IN IF found = {} THEN list ELSE [list EXCEPT !.cursor = Some(Min(found))]

\* TreeList::next_sibling: the first item after the cursor that is not deeper
\* than the item under the cursor; next() when no item is under the cursor
NextSibling(list) ==
    IF GetCursorItem(list) = None
    THEN [list EXCEPT !.cursor = MoveCursorRelative(list, 1)]
    ELSE LET current_depth == Unwrap(GetCursorItem(list)).depth
             found == {index \in (Unwrap(list.cursor) + 1)..(Len(list.items) - 1) :
                          list.items[index + 1].depth <= current_depth}
         IN IF found = {} THEN list ELSE [list EXCEPT !.cursor = Some(Min(found))]

\* TreeList::previous_sibling: the last item before the cursor that is not
\* deeper than the item under the cursor; previous() when no item is under it
PreviousSibling(list) ==
    IF GetCursorItem(list) = None
    THEN [list EXCEPT !.cursor = MoveCursorRelative(list, -1)]
    ELSE LET current_depth == Unwrap(GetCursorItem(list)).depth
             found == {index \in 0..(Unwrap(list.cursor) - 1) :
                          list.items[index + 1].depth <= current_depth}
         IN IF found = {} THEN list ELSE [list EXCEPT !.cursor = Some(Max(found))]

\* the longest flat list the tree is built from
MaxMailboxes == 3

\* the mailbox names and the counts of the flat lists
TreeNames ==
    {MbA, MbAB, <<"a", "/", "b", "/", "a">>, <<"a", "-", "b">>, MbB, <<"b", "/", "a">>}
TreeCounts == {1, 2}

\* the flat list of the test of build_mailbox_list
TestMailboxSizes ==
    << [name |-> <<"a">>, message_count |-> 1],
       [name |-> <<"a", "/", "b">>, message_count |-> 1],
       [name |-> <<"c">>, message_count |-> 1],
       [name |-> <<"b">>, message_count |-> 1],
       [name |-> <<"b", "/", "d", "/", "e">>, message_count |-> 1],
       [name |-> <<"b", "/", "c">>, message_count |-> 1],
       [name |-> <<"b", "/", "d">>, message_count |-> 1] >>

\* Vec<MailboxInfo>: the lists load_mailboxes returns, one row for a mailbox,
\* in any order
MailboxSizes ==
    {TestMailboxSizes} \cup
    {sizes \in UNION {[1..n -> [name : TreeNames, message_count : TreeCounts]]
                         : n \in 0..MaxMailboxes} :
        \A i, j \in 1..Len(sizes) : i # j => sizes[i].name # sizes[j].name}

\* nothing stored, nothing called
StoreIdle ==
    table = {} /\ next_id = 1 /\ clock = 0 /\ last = NoCall /\ added = <<>>

\* a call of a method of a list: the method and the list it found
ListCall(op, list) == [op |-> op, list |-> list]

\* App::new: mailboxes.replace_items(build_mailbox_list(load_mailboxes(..)))
BuildMailboxes ==
    /\ call.op = "none"
    /\ mailboxes' = ReplaceItems(mailboxes, BuildMailboxList(input.mailbox_sizes))
    /\ call' = ListCall("build_mailbox_list", mailboxes)
    /\ UNCHANGED <<storeVars, workerVars, serverVars, runVars, messages, active_states>>

\* NavigableList::next / previous called on the tree
MailboxesMoveCursor(change) ==
    /\ call.op # "none"
    /\ mailboxes' = [mailboxes EXCEPT !.cursor = MoveCursorRelative(mailboxes, change)]
    /\ call' = ListCall(IF change = 1 THEN "next" ELSE "previous", mailboxes)
    /\ UNCHANGED <<storeVars, workerVars, serverVars, runVars, messages, active_states>>

\* TreeList::next_sibling called on the tree
MailboxesNextSibling ==
    /\ call.op # "none"
    /\ mailboxes' = NextSibling(mailboxes)
    /\ call' = ListCall("next_sibling", mailboxes)
    /\ UNCHANGED <<storeVars, workerVars, serverVars, runVars, messages, active_states>>

\* TreeList::previous_sibling called on the tree
MailboxesPreviousSibling ==
    /\ call.op # "none"
    /\ mailboxes' = PreviousSibling(mailboxes)
    /\ call' = ListCall("previous_sibling", mailboxes)
    /\ UNCHANGED <<storeVars, workerVars, serverVars, runVars, messages, active_states>>

\* NavigableList::remove_cursor called on the tree
MailboxesRemoveCursor ==
    /\ call.op # "none"
    /\ mailboxes' = [mailboxes EXCEPT !.cursor = None]
    /\ call' = ListCall("remove_cursor", mailboxes)
    /\ UNCHANGED <<storeVars, workerVars, serverVars, runVars, messages, active_states>>

\* the flat list is drawn, the tree is TreeList::new()
InitTree ==
    /\ StoreIdle /\ WorkerIdle /\ RunIdle /\ ServerIdle
    /\ input \in [mailbox_sizes : MailboxSizes]
    /\ mailboxes = NewTreeList
    /\ messages = NewMultiselectList
    /\ active_states = {}
    /\ call = [op |-> "none"]

NextTree ==
    \/ BuildMailboxes
    \/ \E change \in {-1, 1} : MailboxesMoveCursor(change)
    \/ MailboxesNextSibling
    \/ MailboxesPreviousSibling
    \/ MailboxesRemoveCursor

SpecTree == InitTree /\ [][NextTree]_vars

-----------------------------------------------------------------------------
(* Claims about the mailbox tree, checked under SpecTree *)

\* the mailboxes that name is, read as a string: its non-empty prefixes
Prefixes(name) == {SubSeq(name, 1, k) : k \in 1..Len(name)}

\* mailbox name is the mailbox ancestor or one of its descendants
AtOrBelow(name, ancestor) ==
    name = ancestor \/ StartsWith(name, ancestor \o <<"/">>)

\* the proper ancestors of a mailbox
ProperAncestors(name) ==
    {p \in Prefixes(name) : p # name /\ AtOrBelow(name, p)}

\* the parent of a mailbox: its longest proper ancestor, if it has one
ParentOf(name) ==
    IF ProperAncestors(name) = {} THEN None
    ELSE Some(CHOOSE p \in ProperAncestors(name) :
                 \A q \in ProperAncestors(name) : Len(q) <= Len(p))

\* the sum of a sequence of numbers
RECURSIVE SumSeq(_)
SumSeq(seq) == IF seq = <<>> THEN 0 ELSE Head(seq) + SumSeq(Tail(seq))

\* the rows the test of build_mailbox_list expects
TestMailboxList ==
    << [mailbox |-> <<"a">>, depth |-> 0, message_count |-> 2],
       [mailbox |-> <<"a", "/", "b">>, depth |-> 1, message_count |-> 1],
       [mailbox |-> <<"b">>, depth |-> 0, message_count |-> 4],
       [mailbox |-> <<"b", "/", "c">>, depth |-> 1, message_count |-> 1],
       [mailbox |-> <<"b", "/", "d">>, depth |-> 1, message_count |-> 2],
       [mailbox |-> <<"b", "/", "d", "/", "e">>, depth |-> 2, message_count |-> 1],
       [mailbox |-> <<"c">>, depth |-> 0, message_count |-> 1] >>

\* C21: build_mailbox_list turns the flat list into one row for every mailbox
\* that is an input mailbox or an ancestor of one, its depth the number of its
\* proper ancestors, its message_count the sum of the counts of the input rows
\* at or below it, the rows in ascending order of the mailbox name; the list of
\* the test gives a(0,2), a/b(1,1), b(0,4), b/c(1,1), b/d(1,2), b/d/e(2,1), c(0,1).
C21_BuildMailboxList ==
    call.op # "none" =>
        LET sizes == input.mailbox_sizes
            rows == mailboxes.items
            inputs == {sizes[i].name : i \in 1..Len(sizes)}
            expected == {p \in UNION {Prefixes(m) : m \in inputs} :
                            \E m \in inputs : AtOrBelow(m, p)}
            CountBelow(p) ==
                SumSeq([i \in 1..Len(sizes) |->
                           IF AtOrBelow(sizes[i].name, p)
                           THEN sizes[i].message_count ELSE 0])
        IN /\ {rows[i].mailbox : i \in 1..Len(rows)} = expected
           /\ Len(rows) = Cardinality(expected)
           /\ \A i \in 1..Len(rows) :
                 /\ rows[i].depth = Cardinality(ProperAncestors(rows[i].mailbox))
                 /\ rows[i].message_count = CountBelow(rows[i].mailbox)
           /\ \A i, j \in 1..Len(rows) :
                 i < j => StrLess(rows[i].mailbox, rows[j].mailbox)
           /\ sizes = TestMailboxSizes => rows = TestMailboxList

\* C21 witness: a tree is built that has a row for a mailbox the flat list does
\* not name, counting three messages of the mailboxes below it
C21_Witness ==
    /\ call.op = "build_mailbox_list"
    /\ \E i \in 1..Len(mailboxes.items) :
          /\ \A k \in 1..Len(input.mailbox_sizes) :
                input.mailbox_sizes[k].name # mailboxes.items[i].mailbox
          /\ mailboxes.items[i].message_count = 3

\* C22: in the tree built from a flat list, the message_count of every node is
\* the sum of the message counts of the leaves at or below it (its own count
\* if it is a leaf).
C22_CountIsSumOfLeaves ==
    call.op # "none" =>
        LET rows == mailboxes.items
            Leaf(j) == \A k \in 1..Len(rows) :
                           AtOrBelow(rows[k].mailbox, rows[j].mailbox) => k = j
        IN \A i \in 1..Len(rows) :
              rows[i].message_count =
                  SumSeq([j \in 1..Len(rows) |->
                             IF Leaf(j) /\ AtOrBelow(rows[j].mailbox, rows[i].mailbox)
                             THEN rows[j].message_count ELSE 0])

\* C22, as build_mailbox_list keeps it: the message_count of every node is the
\* count the flat list gives for the node itself (none if it has no row there)
\* plus the message_counts of the node's children.
C22_CountIsOwnPlusChildren ==
    call.op # "none" =>
        LET sizes == input.mailbox_sizes
            rows == mailboxes.items
        IN \A i \in 1..Len(rows) :
              rows[i].message_count =
                  SumSeq([k \in 1..Len(sizes) |->
                             IF sizes[k].name = rows[i].mailbox
                             THEN sizes[k].message_count ELSE 0])
                  + SumSeq([j \in 1..Len(rows) |->
                               IF ParentOf(rows[j].mailbox) = Some(rows[i].mailbox)
                               THEN rows[j].message_count ELSE 0])

\* C22 witness: a tree is built in which a mailbox of the flat list has a child
C22_Witness ==
    /\ call.op = "build_mailbox_list"
    /\ \E i, j \in 1..Len(mailboxes.items) :
          /\ \E k \in 1..Len(input.mailbox_sizes) :
                input.mailbox_sizes[k].name = mailboxes.items[i].mailbox
          /\ ParentOf(mailboxes.items[j].mailbox) = Some(mailboxes.items[i].mailbox)

\* C23: the order of the rows groups every subtree under its parent: for every
\* row of depth d > 0 the nearest row before it of depth d - 1 is its parent,
\* and no row of another subtree lies between a mailbox and a descendant of it.
C23_SubtreesContiguous ==
    call.op # "none" =>
        LET rows == mailboxes.items
        IN /\ \A i \in 1..Len(rows) :
                 rows[i].depth > 0 =>
                     LET before == {j \in 1..(i - 1) : rows[j].depth = rows[i].depth - 1}
                     IN /\ before # {}
                        /\ Some(rows[Max(before)].mailbox) = ParentOf(rows[i].mailbox)
           /\ \A i, k \in 1..Len(rows) :
                 (i < k /\ AtOrBelow(rows[k].mailbox, rows[i].mailbox)) =>
                     \A j \in i..k : AtOrBelow(rows[j].mailbox, rows[i].mailbox)

\* C30: with the cursor on an item of depth d, next_sibling puts the cursor on
\* the nearest later item of depth <= d and previous_sibling on the nearest
\* earlier one; the cursor stays when there is none; with no cursor both put
\* it on index 0 of a list that has items.
C30_SiblingMoves ==
    [][call'.op \in {"next_sibling", "previous_sibling"} =>
        LET items == mailboxes.items
            forward == call'.op = "next_sibling"
        IN /\ mailboxes'.items = items
           /\ IF mailboxes.cursor = None
              THEN mailboxes'.cursor = IF items = <<>> THEN None ELSE Some(0)
              ELSE LET c == Unwrap(mailboxes.cursor)
                       d == items[c + 1].depth
                       siblings == {j \in 0..(Len(items) - 1) :
                                       /\ items[j + 1].depth <= d
                                       /\ IF forward THEN j > c ELSE j < c}
                   IN mailboxes'.cursor =
                          IF siblings = {} THEN Some(c)
                          ELSE IF forward THEN Some(Min(siblings))
                          ELSE Some(Max(siblings))
    ]_vars

\* C30 witness: next_sibling has moved the cursor past the descendants of the
\* item it was on
C30_Witness ==
    /\ call.op = "next_sibling"
    /\ call.list.cursor # None
    /\ mailboxes.cursor # None
    /\ Unwrap(mailboxes.cursor) >= Unwrap(call.list.cursor) + 2

-----------------------------------------------------------------------------
(* The message list: the methods of MultiselectList and of NavigableList    *)
(* called on App.messages (cli/src/tui/multiselect_list.rs,                 *)
(* src/tui/navigable_list.rs)                                               *)

\* the number of distinct messages the lists are made of
MaxKeys == 3

\* the message with a given id
ListMessage(id) ==
    [id |-> id, timestamp |-> 0, mailbox |-> MbB, content |-> ContentX, state |-> "Unread"]

\* Vec<Message>: the item vectors replace_items is called with, every id at
\* most once, in any order
ListItems ==
    LET ListIds == {ids \in UNION {[1..n -> 1..MaxKeys] : n \in 0..MaxKeys} :
                       \A i, j \in 1..Len(ids) : i # j => ids[i] # ids[j]}
    IN {[i \in 1..Len(ids) |-> ListMessage(ids[i])] : ids \in ListIds}

\* the arguments of move_cursor_relative
ListChanges == {-10, -2, -1, 1, 2, 10}

\* messages.replace_items(items)
ListReplaceItems(items) ==
    /\ messages' = MultiselectReplaceItems(messages, items)
    /\ call' = ListCall("replace_items", messages)
    /\ UNCHANGED <<storeVars, workerVars, serverVars, runVars, mailboxes, active_states>>

\* messages.move_cursor_relative(change)
ListMoveCursorRelative(change) ==
    /\ messages' = MultiselectSetCursor(messages, MoveCursorRelative(messages, change))
    /\ call' = [op |-> "move_cursor_relative", list |-> messages, change |-> change]
    /\ UNCHANGED <<storeVars, workerVars, serverVars, runVars, mailboxes, active_states>>

\* messages.first()
ListFirst ==
    /\ messages' = MultiselectSetCursor(messages, First(messages))
    /\ call' = ListCall("first", messages)
    /\ UNCHANGED <<storeVars, workerVars, serverVars, runVars, mailboxes, active_states>>

\* messages.last()
ListLast ==
    /\ messages' = MultiselectSetCursor(messages, Last(messages))
    /\ call' = ListCall("last", messages)
    /\ UNCHANGED <<storeVars, workerVars, serverVars, runVars, mailboxes, active_states>>

\* messages.remove_cursor()
ListRemoveCursor ==
    /\ messages' = MultiselectSetCursor(messages, None)
    /\ call' = ListCall("remove_cursor", messages)
    /\ UNCHANGED <<storeVars, workerVars, serverVars, runVars, mailboxes, active_states>>

\* messages.set_selection_mode(selection_mode)
ListSetSelectionMode(selection_mode) ==
    /\ messages' = [messages EXCEPT !.selection_mode = selection_mode]
    /\ call' = ListCall("set_selection_mode", messages)
    /\ UNCHANGED <<storeVars, workerVars, serverVars, runVars, mailboxes, active_states>>

\* messages.toggle_cursor_selected()
ListToggleCursorSelected ==
    /\ messages' = ToggleCursorSelected(messages)
    /\ call' = ListCall("toggle_cursor_selected", messages)
    /\ UNCHANGED <<storeVars, workerVars, serverVars, runVars, mailboxes, active_states>>

\* messages.set_all_selected(new_selected)
ListSetAllSelected(new_selected) ==
    /\ messages' = SetAllSelected(messages, new_selected)
    /\ call' = ListCall("set_all_selected", messages)
    /\ UNCHANGED <<storeVars, workerVars, serverVars, runVars, mailboxes, active_states>>

\* MultiselectList::new()
InitList ==
    /\ StoreIdle /\ WorkerIdle /\ RunIdle /\ ServerIdle
    /\ input = [items |-> <<>>]
    /\ mailboxes = NewTreeList
    /\ messages = NewMultiselectList
    /\ active_states = {}
    /\ call = [op |-> "none"]

NextList ==
    \/ \E items \in ListItems : ListReplaceItems(items)
    \/ \E change \in ListChanges : ListMoveCursorRelative(change)
    \/ ListFirst
    \/ ListLast
    \/ ListRemoveCursor
    \/ \E selection_mode \in {"None", "Select", "Deselect"} :
          ListSetSelectionMode(selection_mode)
    \/ ListToggleCursorSelected
    \/ \E new_selected \in BOOLEAN : ListSetAllSelected(new_selected)

SpecList == InitList /\ [][NextList]_vars

-----------------------------------------------------------------------------
(* Claims about the message list, checked under SpecList *)

\* the keys of the items of a list
KeysOf(items) == {GetKey(items[i]) : i \in 1..Len(items)}

\* C25: range paint. With selection mode Select (Deselect), moving the cursor
\* from index a to index b marks every item whose index is between them, both
\* included, as selected (unselected) and changes the selection of no other
\* item; from no cursor to index i the range is 0..i; moving to no cursor, or
\* moving in mode None, changes no selection.
C25_RangePaint ==
    [][call'.op \in {"move_cursor_relative", "first", "last", "remove_cursor"} =>
        LET items == messages.items
            a == messages.cursor
            b == messages'.cursor
            painted ==
                IF b = None THEN {}
                ELSE IF a = None THEN 0..Unwrap(b)
                ELSE {i \in 0..(Len(items) - 1) :
                         \/ Unwrap(a) <= i /\ i <= Unwrap(b)
                         \/ Unwrap(b) <= i /\ i <= Unwrap(a)}
            Was(i) == items[i + 1].id \in messages.selected_items
            Is(i) == items[i + 1].id \in messages'.selected_items
        IN /\ messages'.items = items
           /\ messages'.selection_mode = messages.selection_mode
           /\ messages'.selected_items \subseteq KeysOf(items)
           /\ \A i \in 0..(Len(items) - 1) :
                 Is(i) = IF i \in painted /\ messages.selection_mode = "Select" THEN TRUE
                         ELSE IF i \in painted /\ messages.selection_mode = "Deselect"
                              THEN FALSE
                         ELSE Was(i)
    ]_vars

\* C25 witness: in mode Select the cursor went from index 2 to index 1 of
\* three unselected items, and the last two are selected, the first is not
C25_Witness ==
    /\ call.op = "move_cursor_relative"
    /\ call.list.selection_mode = "Select"
    /\ call.list.selected_items = {}
    /\ call.list.cursor = Some(2)
    /\ messages.cursor = Some(1)
    /\ Len(messages.items) = 3
    /\ messages.selected_items = {messages.items[2].id, messages.items[3].id}

\* C26: replace_items keeps the selection by key: afterwards the selected set
\* is exactly the keys selected before that are keys of the new items, the
\* selection mode is what it was, and the move of the cursor selects and
\* deselects nothing, whatever the mode.
C26_ReplaceKeepsSelection ==
    [][call'.op = "replace_items" =>
        /\ messages'.selected_items =
               {key \in messages.selected_items : key \in KeysOf(messages'.items)}
        /\ messages'.selection_mode = messages.selection_mode
    ]_vars

\* C26 witness: replace_items moved the cursor in mode Select over an item
\* that is not selected afterwards, and dropped a selected key
C26_Witness ==
    /\ call.op = "replace_items"
    /\ call.list.selection_mode = "Select"
    /\ call.list.cursor # None
    /\ messages.cursor # None
    /\ call.list.cursor # messages.cursor
    /\ messages.selected_items # call.list.selected_items
    /\ messages.items[Unwrap(messages.cursor) + 1].id \notin messages.selected_items

\* C27: after replace_items the cursor is at the index, in the new items, of
\* the first old item, going through the old items from the old cursor on,
\* whose key is among the new items; the cursor is absent if there is no such
\* item or there was no cursor.
C27_ReplaceMovesCursor ==
    [][call'.op = "replace_items" =>
        LET old == messages.items
            new == messages'.items
            candidates ==
                IF messages.cursor = None THEN {}
                ELSE {k \in (Unwrap(messages.cursor) + 1)..Len(old) :
                         old[k].id \in KeysOf(new)}
        IN IF candidates = {} THEN messages'.cursor = None
           ELSE /\ messages'.cursor # None
                /\ Unwrap(messages'.cursor) < Len(new)
                /\ new[Unwrap(messages'.cursor) + 1].id = old[Min(candidates)].id
    ]_vars

\* C27 witness: the key under the cursor is gone, two of the items after it
\* are kept in the opposite order, and the cursor is on the one that came
\* first in the old list
C27_Witness ==
    /\ call.op = "replace_items"
    /\ call.list.cursor = Some(0)
    /\ Len(call.list.items) = 3
    /\ messages.items = <<call.list.items[3], call.list.items[2]>>
    /\ messages.cursor = Some(1)

\* C28: after replace_items the key of the item under the cursor is the key of
\* the item that was under the cursor before, unless that key is not among the
\* new items: then the cursor is absent.
C28_CursorKeepsKeyOrIsAbsent ==
    [][(call'.op = "replace_items" /\ messages.cursor # None) =>
        LET key == messages.items[Unwrap(messages.cursor) + 1].id
        IN IF key \in KeysOf(messages'.items)
           THEN /\ messages'.cursor # None
                /\ messages'.items[Unwrap(messages'.cursor) + 1].id = key
           ELSE messages'.cursor = None
    ]_vars

\* C28, as replace_items keeps it: the cursor stays on the key it was on when
\* that key is among the new items; when it is not, the cursor goes to an item
\* that came after it in the old list, and is absent exactly when none of
\* those is among the new items.
C28_CursorKeepsKeyWhilePresent ==
    [][(call'.op = "replace_items" /\ messages.cursor # None) =>
        LET old == messages.items
            c == Unwrap(messages.cursor)
            key == old[c + 1].id
            later == {old[k].id : k \in (c + 2)..Len(old)}
        IN IF key \in KeysOf(messages'.items)
           THEN /\ messages'.cursor # None
                /\ messages'.items[Unwrap(messages'.cursor) + 1].id = key
           ELSE /\ messages'.cursor = None <=> later \cap KeysOf(messages'.items) = {}
                /\ messages'.cursor # None =>
                      messages'.items[Unwrap(messages'.cursor) + 1].id \in later
    ]_vars

\* C28 witness: the key under the cursor is not among the new items and the
\* cursor is on the item that followed it
C28_Witness ==
    /\ call.op = "replace_items"
    /\ call.list.cursor = Some(1)
    /\ Len(call.list.items) = 3
    /\ call.list.items[2].id \notin KeysOf(messages.items)
    /\ messages.cursor # None
    /\ messages.items[Unwrap(messages.cursor) + 1].id = call.list.items[3].id

\* C29: on a list of len > 0 items move_cursor_relative(c) puts the cursor on
\* i + c clamped to 0..len-1, i the index of the cursor or -1 when there is
\* none; on an empty list the cursor is absent after the call.
C29_MoveCursorRelative ==
    [][call'.op = "move_cursor_relative" =>
        LET len == Len(messages.items)
            i == IF messages.cursor = None THEN -1 ELSE Unwrap(messages.cursor)
            target == i + call'.change
        IN messages'.cursor =
               IF len = 0 THEN None
               ELSE IF target < 0 THEN Some(0)
               ELSE IF target > len - 1 THEN Some(len - 1)
               ELSE Some(target)
    ]_vars

\* C29 witness: move_cursor_relative(2) from no cursor has put the cursor on
\* index 1 of three items
C29_Witness ==
    /\ call.op = "move_cursor_relative"
    /\ call.change = 2
    /\ call.list.cursor = None
    /\ Len(messages.items) = 3
    /\ messages.cursor = Some(1)

-----------------------------------------------------------------------------
(* The cursor of a list: every method of NavigableList and of TreeList that  *)
(* moves it, called on App.mailboxes in any order (src/tui/navigable_list.rs,*)
(* src/tui/tree_list.rs)                                                     *)

\* Vec<MailboxInfo>: the flat lists the tree is built and rebuilt from
CursorSizes ==
    {TestMailboxSizes} \cup
    {sizes \in MailboxSizes :
        Len(sizes) <= 1 /\ \A i \in 1..Len(sizes) : sizes[i].message_count = 1}

\* mailboxes.replace_items(build_mailbox_list(mailbox_sizes))
MailboxesReplaceItems(mailbox_sizes) ==
    /\ call.op # "none"
    /\ mailboxes' = ReplaceItems(mailboxes, BuildMailboxList(mailbox_sizes))
    /\ call' = ListCall("replace_items", mailboxes)
    /\ UNCHANGED <<storeVars, workerVars, serverVars, runVars, messages, active_states>>

\* mailboxes.first()
MailboxesFirst ==
    /\ call.op # "none"
    /\ mailboxes' = [mailboxes EXCEPT !.cursor = First(mailboxes)]
    /\ call' = ListCall("first", mailboxes)
    /\ UNCHANGED <<storeVars, workerVars, serverVars, runVars, messages, active_states>>

\* mailboxes.last()
MailboxesLast ==
    /\ call.op # "none"
    /\ mailboxes' = [mailboxes EXCEPT !.cursor = Last(mailboxes)]
    /\ call' = ListCall("last", mailboxes)
    /\ UNCHANGED <<storeVars, workerVars, serverVars, runVars, messages, active_states>>

\* mailboxes.move_cursor_relative(change)
MailboxesMoveCursorRelative(change) ==
    /\ call.op # "none"
    /\ mailboxes' = [mailboxes EXCEPT !.cursor = MoveCursorRelative(mailboxes, change)]
    /\ call' = [op |-> "move_cursor_relative", list |-> mailboxes, change |-> change]
    /\ UNCHANGED <<storeVars, workerVars, serverVars, runVars, messages, active_states>>

\* the first flat list is drawn, the tree is TreeList::new()
InitCursor ==
    /\ StoreIdle /\ WorkerIdle /\ RunIdle /\ ServerIdle
    /\ input \in [mailbox_sizes : CursorSizes]
    /\ mailboxes = NewTreeList
    /\ messages = NewMultiselectList
    /\ active_states = {}
    /\ call = [op |-> "none"]

NextCursor ==
    \/ BuildMailboxes
    \/ \E mailbox_sizes \in CursorSizes : MailboxesReplaceItems(mailbox_sizes)
    \/ MailboxesFirst
    \/ MailboxesLast
    \/ \E change \in {-1, 1} : MailboxesMoveCursor(change)
    \/ \E change \in ListChanges : MailboxesMoveCursorRelative(change)
    \/ MailboxesRemoveCursor
    \/ MailboxesNextSibling
    \/ MailboxesPreviousSibling

SpecCursor == InitCursor /\ [][NextCursor]_vars

\* C39: whatever sequence of first, last, next, previous,
\* move_cursor_relative, remove_cursor, next_sibling, previous_sibling and
\* replace_items was called on a list, its cursor is absent or the index of
\* one of its items; on a list of no items it is absent.
C39_CursorInRange ==
    /\ mailboxes.cursor # None =>
          Unwrap(mailboxes.cursor) \in 0..(Len(mailboxes.items) - 1)
    /\ mailboxes.items = <<>> => mailboxes.cursor = None

\* C39 witness: the cursor was on the third of seven items, replace_items left
\* one item, and the cursor is on it
C39_Witness ==
    /\ call.op = "replace_items"
    /\ Len(call.list.items) = 7
    /\ call.list.cursor = Some(2)
    /\ Len(mailboxes.items) = 1
    /\ mailboxes.cursor = Some(0)

\* C40: whatever sequence of cursor moves in any selection mode,
\* set_selection_mode, toggle_cursor_selected, set_all_selected and
\* replace_items was called on a MultiselectList, every key of its selected
\* set is the key of one of its items.
C40_SelectedAreItems ==
    messages.selected_items \subseteq KeysOf(messages.items)

\* C40 witness: two items were selected, replace_items dropped one of them,
\* and the other is the only key selected
C40_Witness ==
    /\ call.op = "replace_items"
    /\ Cardinality(call.list.selected_items) = 2
    /\ Cardinality(messages.selected_items) = 1
    /\ messages.selected_items = call.list.selected_items \cap KeysOf(messages.items)
    /\ Len(messages.items) = 2

-----------------------------------------------------------------------------
(* Mailbox names: TryFrom<String> for Mailbox applied to strings             *)
(* (database/src/mailbox.rs)                                                 *)

\* the longest string a Mailbox is constructed from
MaxName == 4

\* the characters of the strings
NameChars == {"a", "/", "%"}

\* String: the strings a Mailbox is constructed from
Names == UNION {[1..n -> NameChars] : n \in 0..MaxName}

\* Mailbox::try_from(input.value)
TryFromString ==
    /\ call.op = "none"
    /\ call' = [op |-> "try_from",
                result |-> IF ValidMailbox(input.value)
                           THEN [ok |-> TRUE, mailbox |-> input.value]
                           ELSE [ok |-> FALSE]]
    /\ UNCHANGED <<storeVars, workerVars, serverVars, runVars, mailboxes, messages,
                   active_states>>

\* the string is drawn
InitName ==
    /\ StoreIdle /\ WorkerIdle /\ RunIdle /\ ServerIdle
    /\ input \in [value : Names]
    /\ mailboxes = NewTreeList
    /\ messages = NewMultiselectList
    /\ active_states = {}
    /\ call = [op |-> "none"]

NextName == TryFromString

SpecName == InitName /\ [][NextName]_vars

\* whether a string occurs in another
Contains(s, p) == \E i \in 0..(Len(s) - Len(p)) : SubSeq(s, i + 1, i + Len(p)) = p

\* C33: constructing a Mailbox from a string succeeds iff the string is not
\* empty, does not start with '/', does not end with '/', does not contain
\* '//' and does not contain '%'; every other string is refused with an error,
\* and a Mailbox constructed holds the string unchanged.
C33_ValidNames ==
    call.op = "try_from" =>
        LET value == input.value
            accepted ==
                /\ Len(value) > 0
                /\ ~StartsWith(value, <<"/">>)
                /\ ~(Len(value) > 0 /\ SubSeq(value, Len(value), Len(value)) = <<"/">>)
                /\ ~Contains(value, <<"/", "/">>)
                /\ ~Contains(value, <<"%">>)
        IN /\ call.result.ok = accepted
           /\ call.result.ok => call.result.mailbox = value

\* C33 witness: "a/a%" is refused and its only fault is the '%'
C33_Witness ==
    /\ call.op = "try_from"
    /\ input.value = <<"a", "/", "a", "%">>
    /\ ~call.result.ok

-----------------------------------------------------------------------------
(* The worker when backend calls can fail (cli/src/tui/worker.rs): every     *)
(* task unwraps the result of its awaited call                               *)

\* the task panicked: it ended without reaching the end of its program
Panicked(task) == task.pc = Len(TaskProgram(task.req.kind)) + 2

\* the task has ended, by running to its end, by being a stale load, or by a panic
Ended(task) == Step(task) = "done"

\* worker.rs 97, 107, 120, 126: the awaited backend call returns Err and
\* .unwrap() panics; the runtime drops the task where it stands, so none of
\* the statements after the call is executed
TaskCallFails(i) ==
    /\ Step(tasks[i]) = "call"
    /\ tasks' = [tasks EXCEPT ![i].pc = Len(TaskProgram(tasks[i].req.kind)) + 2]
    /\ UNCHANGED <<storeVars, rx_req, message_counter, mailbox_counter, pending_requests,
                   tx_res, applied, appVars, serverVars, runVars>>

NextFailing ==
    \/ Recv
    \/ \E i \in 1..Len(tasks) : TaskStart(i)
    \/ \E i \in 1..Len(tasks) : TaskCall(i)
    \/ \E i \in 1..Len(tasks) : TaskCallFails(i)
    \/ \E i \in 1..Len(tasks) : TaskFinish(i)
    \/ \E i \in 1..Len(tasks) : TaskSend(i)
    \/ HandleWorkerResponse
    \/ \E state \in WorkerToggleStates : ToggleActiveState(state)
    \/ Reload
    \/ MessagesMoveCursor(1)
    \/ \E new_state \in WorkerNewStates : SetSelectedMessageStates(new_state)
    \/ DeleteSelectedMessages

SpecFailing == InitWorker /\ [][NextFailing]_vars

\* C31: pending_requests is incremented once when a task starts its backend
\* call and decremented once when the call is over, whether it succeeded or
\* failed: it is never negative, it is greater than 0 while a backend call is
\* in progress, and it is 0 whenever every task the worker spawned has ended.
C31_PendingCountsCalls ==
    /\ pending_requests >= 0
    /\ (\E i \in 1..Len(tasks) : Step(tasks[i]) = "call") => pending_requests > 0
    /\ (\A i \in 1..Len(tasks) : Ended(tasks[i])) => pending_requests = 0

-----------------------------------------------------------------------------
(* tui::run (cli/src/tui/mod.rs 44-69): the terminal is set up, the App is   *)
(* built and run, the terminal is restored                                   *)

\* the step tui::run is about to take
RunStep == IF terminal.pc > Len(RunProgram) THEN "returned" ELSE RunProgram[terminal.pc]

\* the steps that act on the terminal, each followed by `?`
TerminalSteps ==
    {"enable_raw_mode", "enter_alternate_screen", "enable_mouse_capture", "terminal_new",
     "disable_raw_mode", "leave_alternate_screen", "disable_mouse_capture", "show_cursor"}

\* what a step that succeeds does to the terminal
TerminalAfter(t, step) ==
    CASE step = "enable_raw_mode" -> [t EXCEPT !.raw_mode = TRUE]
      [] step = "enter_alternate_screen" -> [t EXCEPT !.alternate_screen = TRUE]
      [] step = "enable_mouse_capture" -> [t EXCEPT !.mouse_capture = TRUE]
      [] step = "disable_raw_mode" -> [t EXCEPT !.raw_mode = FALSE]
      [] step = "leave_alternate_screen" -> [t EXCEPT !.alternate_screen = FALSE]
      [] step = "disable_mouse_capture" -> [t EXCEPT !.mouse_capture = FALSE]
      [] OTHER -> t

\* `?` on an Err: run returns the error at once, from where it stands
ReturnErr(t, step) ==
    [t EXCEPT !.pc = Len(RunProgram) + 1, !.failed = step, !.returned = "Err"]

\* mod.rs 51-55 and 63-66: one step on the terminal, which succeeds or fails
TerminalStep(ok) ==
    /\ RunStep \in TerminalSteps
    /\ terminal' = IF ok THEN [TerminalAfter(terminal, RunStep) EXCEPT !.pc = @ + 1]
                   ELSE ReturnErr(terminal, RunStep)
    /\ UNCHANGED <<storeVars, workerVars, appVars, serverVars, worker_tx, worker_thread>>

\* mod.rs 59: App::new(db, initial_mailbox, initial_states)?
AppNew(ok) ==
    /\ RunStep = "app_new"
    /\ IF ok
       THEN /\ mailboxes' = NewMailboxes(table, input.initial_mailbox, input.initial_states)
            /\ messages' = NewMessages(table, input.initial_mailbox, input.initial_states)
            /\ active_states' = input.initial_states
            /\ terminal' = [terminal EXCEPT !.pc = @ + 1]
            /\ UNCHANGED worker_tx
       ELSE /\ terminal' = ReturnErr(terminal, "app_new")
            /\ worker_tx' = "dropped"
            /\ UNCHANGED <<mailboxes, messages, active_states>>
    /\ UNCHANGED <<storeVars, workerVars, call, serverVars, worker_thread>>

\* mod.rs 60 and run_app: the loop ends with Ok(()) on 'q' and with the error
\* of whatever failed inside it; the result is kept in res and the App dropped
RunAppReturns(res) ==
    /\ RunStep = "run_app"
    /\ terminal' = [terminal EXCEPT !.pc = @ + 1, !.res = res]
    /\ worker_tx' = "dropped"
    /\ UNCHANGED <<storeVars, workerVars, appVars, serverVars, worker_thread>>

\* mod.rs 68: res
RunReturn ==
    /\ RunStep = "return"
    /\ terminal' = [terminal EXCEPT !.pc = @ + 1, !.returned = terminal.res]
    /\ UNCHANGED <<storeVars, workerVars, appVars, serverVars, worker_tx, worker_thread>>

\* tui::run is entered with a store and the arguments of the command line
InitRun ==
    /\ table = SeedTable /\ next_id = Cardinality(SeedTable) + 1 /\ clock = 0
    /\ last = NoCall /\ added = <<>>
    /\ input \in [initial_mailbox : AppInitialMailboxes, initial_states : AppInitialStates]
    /\ WorkerIdle /\ RunIdle /\ ServerIdle
    /\ mailboxes = NewTreeList
    /\ messages = NewMultiselectList
    /\ active_states = {}
    /\ call = [op |-> "none", removed |-> 0, refresh |-> FALSE]

NextRun ==
    \/ \E ok \in BOOLEAN : TerminalStep(ok)
    \/ \E ok \in BOOLEAN : AppNew(ok)
    \/ RunStep = "run_app" /\ \E change \in {-1, 1} : MessagesMoveCursor(change)
    \/ RunStep = "run_app" /\ MessagesToggleCursorSelected
    \/ \E res \in {"Ok", "Err"} : RunAppReturns(res)
    \/ RunReturn

SpecRun == InitRun /\ [][NextRun]_vars

\* C32: on every path by which tui::run returns after raw mode was enabled
\* (the quit key, an error inside the event loop, a failure of App::new, a
\* failure of a later setup or restore step), raw mode has been disabled and
\* the alternate screen has been left.
C32_TerminalRestored ==
    (RunStep = "returned" /\ terminal.failed # "enable_raw_mode") =>
        ~terminal.raw_mode /\ ~terminal.alternate_screen

-----------------------------------------------------------------------------
(* The mailbox pane: handle_mailbox_key (cli/src/tui/mod.rs 188-261) with    *)
(* the worker behind it                                                      *)

\* Mailbox::is_ancestor_of: other lies in the subtree below mailbox
IsAncestorOf(mailbox, other) == StartsWith(other, mailbox \o <<"/">>)

\* the keys of the mailbox pane that move the cursor
MailboxKeys == {"Esc", "Down", "Up", "ControlDown", "ControlUp"}

\* the mailbox under the cursor of the tree, if any
ActiveMailbox(mailbox_list) ==
    IF GetCursorItem(mailbox_list) = None THEN None
    ELSE Some(Unwrap(GetCursorItem(mailbox_list)).mailbox)

\* a faulty variant of FilterMessages: the list is left as it is
FilterMessagesKeepAll(message_list, filter) == message_list

\* App::filter_messages: the items of the message list that match the filter
FilterMessages(message_list, filter) ==
    MultiselectReplaceItems(message_list,
        SelectSeq(message_list.items, LAMBDA item : MatchesMessage(filter, item)))

\* handle_mailbox_key for a key that moves the cursor
HandleMailboxKey(key) ==
    LET old_active_mailbox == ActiveMailbox(mailboxes)
        moved ==
            CASE key = "Esc" -> [mailboxes EXCEPT !.cursor = None]
              [] key = "Down" -> [mailboxes EXCEPT !.cursor = MoveCursorRelative(mailboxes, 1)]
              [] key = "Up" -> [mailboxes EXCEPT !.cursor = MoveCursorRelative(mailboxes, -1)]
              [] key = "ControlDown" -> NextSibling(mailboxes)
              [] key = "ControlUp" -> PreviousSibling(mailboxes)
        active_mailbox == ActiveMailbox(moved)
        local_update ==
            IF old_active_mailbox = None THEN TRUE
            ELSE IsAncestorOf(Unwrap(old_active_mailbox), Unwrap(active_mailbox))
    IN /\ mailboxes' = moved
       /\ IF active_mailbox = old_active_mailbox
          THEN /\ UNCHANGED <<messages, rx_req>>
               /\ call' = [op |-> "handle_mailbox_key", removed |-> 0, refresh |-> FALSE,
                           key |-> key, old |-> old_active_mailbox, update |-> "none"]
          ELSE IF active_mailbox # None /\ local_update
          THEN /\ messages' = FilterMessages(messages,
                                  GetDisplayFilter(moved, active_states))
               /\ UNCHANGED rx_req
               /\ call' = [op |-> "handle_mailbox_key",
                           removed |-> Len(messages.items) - Len(messages'.items),
                           refresh |-> FALSE,
                           key |-> key, old |-> old_active_mailbox, update |-> "local"]
          ELSE /\ CanSend(2)
               /\ rx_req' = Send(<<UpdateMailboxesRequest(active_states),
                                   UpdateMessagesRequest(moved, active_states)>>,
                                 Len(applied))
               /\ UNCHANGED messages
               /\ call' = [op |-> "handle_mailbox_key", removed |-> 0, refresh |-> FALSE,
                           key |-> key, old |-> old_active_mailbox, update |-> "load"]
       /\ UNCHANGED <<storeVars, tasks, message_counter, mailbox_counter, pending_requests,
                      tx_res, applied, active_states, serverVars, runVars>>

\* the arguments the TUI is started with
PaneInitialMailboxes == {None, Some(MbAB)}
PaneToggleStates == {"Read"}

InitPane == InitTui(PaneInitialMailboxes, WorkerInitialStates)

NextPane ==
    \/ Recv
    \/ \E i \in 1..Len(tasks) : TaskStart(i)
    \/ \E i \in 1..Len(tasks) : TaskCall(i)
    \/ \E i \in 1..Len(tasks) : TaskFinish(i)
    \/ \E i \in 1..Len(tasks) : TaskSend(i)
    \/ HandleWorkerResponse
    \/ \E state \in PaneToggleStates : ToggleActiveState(state)
    \/ \E key \in MailboxKeys : HandleMailboxKey(key)

SpecPane == InitPane /\ [][NextPane]_vars

\* C34: after any sequence of mailbox-cursor moves, state-filter toggles and
\* worker responses, once no request is pending and every response has been
\* applied, every message of the message list matches the current display
\* filter (the subtree of the cursor mailbox and the active states).
C34_ListMatchesDisplayFilter ==
    Quiescent =>
        \A i \in 1..Len(messages.items) :
            MatchesMessage(GetDisplayFilter(mailboxes, active_states), messages.items[i])

\* C35: in the mailbox pane, when a key moves the cursor to a different mailbox
\* that is a descendant of the previous cursor mailbox, or when there was no
\* previous cursor, the message list is replaced by its items that match the
\* new display filter and no request is sent; when the new cursor is anything
\* else, no cursor included, LoadMailboxes and LoadMessages are sent and the
\* list is left as it is; when the cursor mailbox did not change, neither
\* happens.
C35_LocalOrLoad ==
    [][\A key \in MailboxKeys : HandleMailboxKey(key) =>
        LET old == ActiveMailbox(mailboxes)
            new == ActiveMailbox(mailboxes')
            descendant ==
                /\ old # None /\ new # None
                /\ Len(Unwrap(new)) > Len(Unwrap(old)) + 1
                /\ \A k \in 1..Len(Unwrap(old)) : Unwrap(new)[k] = Unwrap(old)[k]
                /\ Unwrap(new)[Len(Unwrap(old)) + 1] = "/"
            sent == SubSeq(rx_req', Len(rx_req) + 1, Len(rx_req'))
            shown(m) ==
                /\ m.state \in active_states
                /\ \/ m.mailbox = Unwrap(new)
                   \/ /\ Len(m.mailbox) > Len(Unwrap(new)) + 1
                      /\ SubSeq(m.mailbox, 1, Len(Unwrap(new)) + 1) = Unwrap(new) \o <<"/">>
        IN /\ SubSeq(rx_req', 1, Len(rx_req)) = rx_req
           /\ IF new = old THEN sent = <<>> /\ messages' = messages
              ELSE IF new # None /\ (old = None \/ descendant)
              THEN /\ sent = <<>>
                   /\ messages'.items = SelectSeq(messages.items, shown)
              ELSE /\ Len(sent) = 2
                   /\ sent[1].kind = "LoadMailboxes"
                   /\ sent[1].filter = WithStates(NewFilter, active_states)
                   /\ sent[2].kind = "LoadMessages"
                   /\ sent[2].filter = GetDisplayFilter(mailboxes', active_states)
                   /\ messages' = messages
    ]_vars

\* C35 witness: Down moved the cursor from a to its child a/b, the list was
\* filtered locally, and no request has been sent in the run
C35_Witness ==
    /\ call.op = "handle_mailbox_key"
    /\ call.key = "Down"
    /\ call.old = Some(MbA)
    /\ ActiveMailbox(mailboxes) = Some(MbAB)
    /\ call.update = "local"
    /\ rx_req = <<>> /\ tasks = <<>>

-----------------------------------------------------------------------------
(* The refresh after a mutation, checked under SpecWorker *)

\* the mutation whose refreshing response the UI had handled last when it sent
\* the request of task j: the number of its task, 0 if there is none
RefreshedBy(j) ==
    LET handled == tasks[j].req.handled
    IN IF handled = 0 THEN 0
       ELSE IF /\ tasks[applied[handled]].req.kind \in MutationKinds
               /\ tasks[applied[handled]].req.refresh
       THEN applied[handled]
       ELSE 0

\* C36: the response that makes the UI refresh after a mutation is sent only
\* after the backend call of that mutation has returned, so the backend calls
\* of the LoadMailboxes and LoadMessages requests the UI sends on receiving it
\* find the store with the mutation applied: no row the mutation's filter
\* selects is left, except with the state the mutation gave it.
C36_RefreshSeesMutation ==
    /\ [](\A k \in 1..Len(Arrived) :
            tasks[Arrived[k]].req.kind \in MutationKinds => Called(tasks[Arrived[k]]))
    /\ [][\A j \in 1..Len(tasks) :
            (TaskCall(j) /\ tasks[j].req.kind \in LoadKinds /\ RefreshedBy(j) # 0) =>
                LET mutation == tasks[RefreshedBy(j)].req
                IN \A row \in table :
                      GetWhere(mutation.filter, row) =>
                          /\ mutation.kind = "ChangeMessageStates"
                          /\ row.state = Unwrap(mutation.new_state)]_vars

\* C36 witness: the UI handled a response that asked for a refresh, sent
\* LoadMailboxes and LoadMessages, and the backend calls of both have run
C36_Witness ==
    \E i, j \in 1..Len(tasks) :
        /\ tasks[i].req.kind = "LoadMailboxes" /\ tasks[j].req.kind = "LoadMessages"
        /\ RefreshedBy(i) # 0 /\ RefreshedBy(j) = RefreshedBy(i)
        /\ Called(tasks[i]) /\ Called(tasks[j])

-----------------------------------------------------------------------------
(* The worker under fair scheduling: the worker thread blocks in recv until  *)
(* a request arrives, and the runtime polls every spawned task to its end    *)
(* once its awaited call has returned (worker.rs 56-64, Handle::spawn)       *)

\* a step of the worker thread or of one of its tasks
WorkerStep ==
    \/ Recv
    \/ \E i \in 1..Len(tasks) : TaskStart(i) \/ TaskCall(i) \/ TaskFinish(i) \/ TaskSend(i)

SpecWorkerFair == InitWorker /\ [][NextWorker]_vars /\ WF_vars(WorkerStep)

\* the worker has nothing left to do
WorkerDrained ==
    /\ rx_req = <<>>
    /\ \A i \in 1..Len(tasks) : Step(tasks[i]) = "done"

\* C37: when the UI has sent finitely many LoadMessages requests and every
\* backend call returns successfully, eventually all their tasks have
\* finished, pending_requests is back to 0, and at least one LoadMessages
\* response has been delivered to the UI: the task that holds the highest
\* stamp is never dropped.
C37_BurstLeavesAResult ==
    <>[]( /\ WorkerDrained
          /\ pending_requests = 0
          /\ MessageLoads # {} =>
                /\ \E k \in 1..Len(Arrived) : Arrived[k] \in MessageLoads
                /\ \A i \in MessageLoads :
                      tasks[i].req_id = message_counter =>
                          \E k \in 1..Len(Arrived) : Arrived[k] = i )

\* C37 witness: two or more LoadMessages tasks have finished, one that was
\* superseded sent nothing, and exactly one response has been delivered
C37_Witness ==
    /\ WorkerDrained
    /\ Cardinality(MessageLoads) >= 2
    /\ pending_requests = 0
    /\ Cardinality({k \in 1..Len(Arrived) : Arrived[k] \in MessageLoads}) = 1
    /\ \E i \in MessageLoads : \A k \in 1..Len(Arrived) : Arrived[k] # i

-----------------------------------------------------------------------------
(* Shutdown of the worker (cli/src/tui/worker.rs 56-64): the App, and with   *)
(* it the request sender and the response receiver, is dropped when run_app  *)
(* returns; the worker thread leaves its loop when recv returns Err          *)

\* the App is dropped: worker_tx and worker_rx go with it
DropApp ==
    /\ worker_tx = "held"
    /\ worker_tx' = "dropped"
    /\ UNCHANGED <<storeVars, workerVars, appVars, serverVars, worker_thread, terminal>>

\* a faulty variant of WorkerExit: the thread leaves its loop as soon as the
\* sender is dropped, whatever the channel still holds
WorkerExitAtOnce ==
    /\ worker_thread = "recv"
    /\ worker_tx = "dropped"
    /\ worker_thread' = "exited"
    /\ rx_req' = <<>>
    /\ UNCHANGED <<storeVars, tasks, message_counter, mailbox_counter, pending_requests,
                   tx_res, applied, appVars, serverVars, worker_tx, terminal>>

\* worker.rs 58: rx_req.recv() returns Err, which it does only when the channel
\* is empty and every sender is dropped, and the loop breaks
WorkerExit ==
    /\ worker_thread = "recv"
    /\ worker_tx = "dropped"
    /\ rx_req = <<>>
    /\ worker_thread' = "exited"
    /\ UNCHANGED <<storeVars, workerVars, appVars, serverVars, worker_tx, terminal>>

\* worker.rs 101, 111, 122, 128: tx_res.send(..) returns Err once the receiver
\* is dropped, and .unwrap() panics
TaskSendFails(i) ==
    /\ worker_tx = "dropped"
    /\ Step(tasks[i]) = "send"
    /\ tasks' = [tasks EXCEPT ![i].pc = Len(TaskProgram(tasks[i].req.kind)) + 2]
    /\ UNCHANGED <<storeVars, rx_req, message_counter, mailbox_counter, pending_requests,
                   tx_res, applied, appVars, serverVars, runVars>>

NextShutdown ==
    \/ worker_thread = "recv" /\ Recv
    \/ \E i \in 1..Len(tasks) : TaskStart(i)
    \/ \E i \in 1..Len(tasks) : TaskCall(i)
    \/ \E i \in 1..Len(tasks) : TaskFinish(i)
    \/ \E i \in 1..Len(tasks) : worker_tx = "held" /\ TaskSend(i)
    \/ \E i \in 1..Len(tasks) : TaskSendFails(i)
    \/ worker_tx = "held" /\ HandleWorkerResponse
    \/ \E state \in WorkerToggleStates : worker_tx = "held" /\ ToggleActiveState(state)
    \/ worker_tx = "held" /\ Reload
    \/ DropApp
    \/ WorkerExit

\* the worker thread blocked in recv is woken by a request and by the drop of
\* the sender
SpecShutdown ==
    /\ InitWorker /\ [][NextShutdown]_vars
    /\ WF_vars(worker_thread = "recv" /\ Recv)
    /\ WF_vars(WorkerExit)

=============================================================================
